---------------------------- MODULE Spec2Model ----------------------------
(***************************************************************************)
(* Event-detection agent: the retry orchestrator detect_events             *)
(* (src/src/agent.py), its filters and tool-usage auditor, and the memory  *)
(* store (src/src/memory.py) with the CLI run protocol (src/src/main.py).  *)
(*                                                                         *)
(* Python strings are TLA+ strings; TLC evaluates Len, \o and SubSeq on    *)
(* them, so substring tests, prefixes, regular-expression matches and URL  *)
(* parsing are computed character by character as the code computes them.  *)
(***************************************************************************)
EXTENDS Integers, Sequences, FiniteSets, TLC

(***************************************************************************)
(* String primitives (Python str operations used by the code).             *)
(***************************************************************************)
CharAt(s, i) == SubSeq(s, i, i)

\* s[i:] with a 1-based index
StrFrom(s, i) == SubSeq(s, i, Len(s))

\* Python: sub in s
Contains(s, sub) ==
    \E i \in 1..(Len(s) - Len(sub) + 1) : SubSeq(s, i, i + Len(sub) - 1) = sub

\* Python: s.startswith(p)
StartsWith(s, p) == Len(p) <= Len(s) /\ SubSeq(s, 1, Len(p)) = p

\* Python: s.endswith(p)
EndsWith(s, p) == Len(p) <= Len(s) /\ SubSeq(s, Len(s) - Len(p) + 1, Len(s)) = p

\* 1-based index of the first occurrence of sub at or after position from, 0 if none
FindFrom(s, sub, from) ==
    LET hits == {i \in from..(Len(s) - Len(sub) + 1) : SubSeq(s, i, i + Len(sub) - 1) = sub}
    IN  IF hits = {} THEN 0 ELSE CHOOSE i \in hits : \A j \in hits : i <= j

Digits == {"0", "1", "2", "3", "4", "5", "6", "7", "8", "9"}

IsDigit(c) == c \in Digits

DigitVal(c) ==
    CASE c = "0" -> 0 [] c = "1" -> 1 [] c = "2" -> 2 [] c = "3" -> 3 [] c = "4" -> 4
      [] c = "5" -> 5 [] c = "6" -> 6 [] c = "7" -> 7 [] c = "8" -> 8 [] c = "9" -> 9

Whitespace == {" ", "\t", "\n", "\r"}

Upper == <<"A", "B", "C", "D", "E", "F", "G", "H", "I", "J", "K", "L", "M",
           "N", "O", "P", "Q", "R", "S", "T", "U", "V", "W", "X", "Y", "Z">>

LowerOf == <<"a", "b", "c", "d", "e", "f", "g", "h", "i", "j", "k", "l", "m",
             "n", "o", "p", "q", "r", "s", "t", "u", "v", "w", "x", "y", "z">>

LowerChar(c) ==
    IF \E k \in 1..Len(Upper) : Upper[k] = c
    THEN LowerOf[CHOOSE k \in 1..Len(Upper) : Upper[k] = c]
    ELSE c

RECURSIVE LowerFrom(_, _)
LowerFrom(s, i) ==
    IF i > Len(s) THEN "" ELSE LowerChar(CharAt(s, i)) \o LowerFrom(s, i + 1)

\* Python: s.lower() (ASCII letters)
Lower(s) == LowerFrom(s, 1)

\* Python: s.strip()
Strip(s) ==
    LET keep == {i \in 1..Len(s) : CharAt(s, i) \notin Whitespace}
    IN  IF keep = {} THEN ""
        ELSE SubSeq(s, CHOOSE i \in keep : \A j \in keep : i <= j,
                       CHOOSE i \in keep : \A j \in keep : i >= j)

\* Python: sep.join(parts)
RECURSIVE Join(_, _)
Join(parts, sep) ==
    IF Len(parts) = 0 THEN ""
    ELSE IF Len(parts) = 1 THEN parts[1]
    ELSE parts[1] \o sep \o Join(Tail(parts), sep)

\* the set of elements of a sequence
Range(seq) == {seq[i] : i \in 1..Len(seq)}

(***************************************************************************)
(* urllib.parse as used by _normalize_url: urlparse splits scheme, netloc, *)
(* path and query; parse_qs splits the query at & and =, drops blank       *)
(* values and percent-decodes; unquote percent-decodes once more.          *)
(***************************************************************************)
\* the percent escapes decoded by the model (ASCII delimiters of URLs)
PercentCodes == <<"%3A", "%2F", "%3F", "%3D", "%26", "%25", "%20",
                  "%3a", "%2f", "%3f", "%3d">>

PercentChars == <<":", "/", "?", "=", "&", "%", " ",
                  ":", "/", "?", "=">>

RECURSIVE UnquoteFrom(_, _)
UnquoteFrom(s, i) ==
    IF i > Len(s) THEN ""
    ELSE IF CharAt(s, i) = "%" /\ \E k \in 1..Len(PercentCodes) : SubSeq(s, i, i + 2) = PercentCodes[k]
    THEN PercentChars[CHOOSE k \in 1..Len(PercentCodes) : SubSeq(s, i, i + 2) = PercentCodes[k]]
         \o UnquoteFrom(s, i + 3)
    ELSE CharAt(s, i) \o UnquoteFrom(s, i + 1)

\* urllib.parse.unquote
unquote(s) == UnquoteFrom(s, 1)

\* position of the first character of s at or after from that is in stops; Len(s)+1 if none
FirstOf(s, stops, from) ==
    LET hits == {i \in from..Len(s) : CharAt(s, i) \in stops}
    IN  IF hits = {} THEN Len(s) + 1 ELSE CHOOSE i \in hits : \A j \in hits : i <= j

\* urlparse, first step: <<has a scheme, the text after "scheme:">>
SplitScheme(url) ==
    LET colon == FindFrom(url, ":", 1)
    IN  IF colon > 1 /\ FirstOf(url, {"/", "?", "#"}, 1) > colon
        THEN <<Lower(SubSeq(url, 1, colon - 1)), StrFrom(url, colon + 1)>>
        ELSE <<"", url>>

\* urlparse, second step: <<netloc, the text after it>>
SplitNetloc(rest) ==
    IF StartsWith(rest, "//")
    THEN <<SubSeq(rest, 3, FirstOf(rest, {"/", "?", "#"}, 3) - 1),
           StrFrom(rest, FirstOf(rest, {"/", "?", "#"}, 3))>>
    ELSE <<"", rest>>

\* urlparse, third step: <<path, query>>
SplitPath(after) ==
    LET pathEnd == FirstOf(after, {"?", "#"}, 1)
    IN  <<SubSeq(after, 1, pathEnd - 1),
          IF pathEnd <= Len(after) /\ CharAt(after, pathEnd) = "?"
          THEN SubSeq(after, pathEnd + 1, FirstOf(after, {"#"}, 1) - 1) ELSE "">>

UrlFields(scheme, netloc, pq) ==
    [scheme |-> scheme, netloc |-> netloc, path |-> pq[1], query |-> pq[2]]

UrlAfterNetloc(scheme, loc) == UrlFields(scheme, loc[1], SplitPath(loc[2]))

UrlAfterScheme(sch) == UrlAfterNetloc(sch[1], SplitNetloc(sch[2]))

\* urllib.parse.urlparse: the fields the code reads
urlparse(url) == UrlAfterScheme(SplitScheme(url))

\* split s at every occurrence of the one-character separator sep
RECURSIVE SplitAt(_, _)
SplitAt(s, sep) ==
    LET p == FindFrom(s, sep, 1)
    IN  IF p = 0 THEN <<s>>
        ELSE <<SubSeq(s, 1, p - 1)>> \o SplitAt(StrFrom(s, p + 1), sep)

\* parse_qs(query).get(name, [""])[0]: the first non-blank value given for name
FirstQueryValue(query, name) ==
    LET pairs == SplitAt(query, "&")
        Named(p) == LET eq == FindFrom(p, "=", 1)
                    IN  eq > 0 /\ unquote(SubSeq(p, 1, eq - 1)) = name /\ eq < Len(p)
        hits  == SelectSeq(pairs, Named)
    IN  IF Len(hits) = 0 THEN ""
        ELSE unquote(StrFrom(hits[1], FindFrom(hits[1], "=", 1) + 1))

(***************************************************************************)
(* Program constants.                                                      *)
(***************************************************************************)
\* agent.py: for attempt in range(2)
MaxAttempts == 2

\* agent.py: _filter_solution_quality(events, min_length=20)
min_length == 20

\* main.py: memory.get_blocked_event_ids(ttl_runs=2)
ttl_runs == 2

\* agent.py: max_events: int = 8
DefaultMaxEvents == 8

\* tools.py: the default allowlist of _load_official_domains
DefaultOfficialDomains ==
    <<"weather.gc.ca", "canada.ca", "travel.gc.ca", "weather.gov", "noaa.gov",
      "nhc.noaa.gov", "cdc.gov", "who.int", "state.gov", "gov.uk", "europa.eu">>

\* agent.py: hazard_keywords of _filter_hazards
hazard_keywords ==
    {"storm", "snow", "wind", "strike", "closure", "warning", "advisory",
     "security", "travel advisory", "civil unrest", "demonstration",
     "terrorism", "crime", "warning level"}

\* agent.py: severity_cues of _filter_hazards
severity_cues ==
    {"severe", "heavy", "major", "warning", "alert", "advisory", "cancel",
     "high", "elevated", "level"}

(***************************************************************************)
(* agent.py: pure helpers.                                                 *)
(***************************************************************************)
\* _normalize_url, given parsed = urlparse(url)
Unwrapped(url, parsed) ==
    IF EndsWith(parsed.netloc, "duckduckgo.com") /\ StartsWith(parsed.path, "/l/")
    THEN unquote(FirstQueryValue(parsed.query, "uddg"))
    ELSE url

\* _normalize_url, were a redirect wrapper left as it is
KeepWrapper(url) == url

\* _normalize_url: a duckduckgo redirect wrapper is unwrapped to its uddg target
_normalize_url(url) == Unwrapped(url, urlparse(url))

\* the key, were the date left out of it
KeyWithoutDate(event) ==
    Join(<<event.category, event.location, event.title, event.proposed_change>>, "|")

\* the key, were the description digested with the five fields
KeyWithDescription(event) ==
    Join(<<event.category, event.date, event.location, event.title,
           event.proposed_change, event.description>>, "|")

\* the key digested by _assign_event_ids
EventKey(event) ==
    Join(<<event.category, event.date, event.location, event.title,
           event.proposed_change>>, "|")

\* hashlib.sha256(key).hexdigest()[:12], taken as collision-free: the digest
\* stands for the key it was computed from
Digest(key) == key

\* re.match(r"^\d{4}-\d{2}-\d{2}$", value or ""): $ also matches before a final newline
IsoShape(s, i) ==
    /\ i + 9 <= Len(s)
    /\ \A k \in {0, 1, 2, 3, 5, 6, 8, 9} : IsDigit(CharAt(s, i + k))
    /\ CharAt(s, i + 4) = "-" /\ CharAt(s, i + 7) = "-"

_is_iso_date(value) ==
    /\ IsoShape(value, 1)
    /\ \/ Len(value) = 10
       \/ Len(value) = 11 /\ CharAt(value, 11) = "\n"

\* the datetime value None
NoDate == <<>>

Num2(s, i) == 10 * DigitVal(CharAt(s, i)) + DigitVal(CharAt(s, i + 1))

IsLeap(y) == (y % 4 = 0 /\ y % 100 # 0) \/ y % 400 = 0

DaysIn(y, m) ==
    IF m = 2 THEN (IF IsLeap(y) THEN 29 ELSE 28)
    ELSE IF m \in {4, 6, 9, 11} THEN 30 ELSE 31

\* _parse_event_date: the first YYYY-MM-DD shaped substring, read by strptime;
\* None (NoDate) when there is none or it is no calendar date. A date is <<y, m, d>>.
_parse_event_date(value) ==
    LET hits == {i \in 1..Len(value) : IsoShape(value, i)}
    IN  IF hits = {} THEN NoDate
        ELSE LET i == CHOOSE h \in hits : \A j \in hits : h <= j
                 y == 100 * Num2(value, i) + Num2(value, i + 2)
                 m == Num2(value, i + 5)
                 d == Num2(value, i + 8)
             IN  IF y >= 1 /\ m \in 1..12 /\ d >= 1 /\ d <= DaysIn(y, m)
                 THEN <<y, m, d>> ELSE NoDate

\* datetime comparison a <= b
DateLeq(a, b) ==
    \/ a[1] < b[1]
    \/ a[1] = b[1] /\ a[2] < b[2]
    \/ a[1] = b[1] /\ a[2] = b[2] /\ a[3] <= b[3]

(***************************************************************************)
(* agent.py: what the evidence and quality filters decide for one event.   *)
(***************************************************************************)
HasSnippet(event) == \E i \in 1..Len(event.sources) : event.sources[i].snippet # ""

\* the hazard filter's test, were no severity cue asked for
HazardKeepsWithoutCue(event, official_domains) ==
    LET text == Lower(event.description \o " " \o event.rationale \o " " \o event.recommendation)
        NonEmpty(src) == src.snippet # ""
        withSnip == SelectSeq(event.sources, NonEmpty)
        source_text == Lower(Join([i \in 1..Len(withSnip) |-> withSnip[i].snippet], " "))
        has_keyword == \E k \in hazard_keywords : Contains(text, k) \/ Contains(source_text, k)
        has_official_source ==
            IF Len(official_domains) > 0
            THEN \E i \in 1..Len(event.sources) : \E d \in 1..Len(official_domains) :
                     Contains(event.sources[i].url, official_domains[d])
            ELSE TRUE
        is_mofa_advisory ==
            \E i \in 1..Len(event.sources) : Contains(event.sources[i].url, "mofa.go.jp")
    IN  \/ has_keyword /\ HasSnippet(event) /\ has_official_source
        \/ is_mofa_advisory /\ HasSnippet(event)

HazardKeeps(event, official_domains) ==
    LET text == Lower(event.description \o " " \o event.rationale \o " " \o event.recommendation)
        NonEmpty(src) == src.snippet # ""
        withSnip == SelectSeq(event.sources, NonEmpty)
        source_text == Lower(Join([i \in 1..Len(withSnip) |-> withSnip[i].snippet], " "))
        has_keyword == \E k \in hazard_keywords : Contains(text, k) \/ Contains(source_text, k)
        has_severity == \E c \in severity_cues : Contains(text, c) \/ Contains(source_text, c)
        has_source_snippet == HasSnippet(event)
        has_official_source ==
            IF Len(official_domains) > 0
            THEN \E i \in 1..Len(event.sources) : \E d \in 1..Len(official_domains) :
                     Contains(event.sources[i].url, official_domains[d])
            ELSE TRUE
        is_mofa_advisory ==
            \E i \in 1..Len(event.sources) : Contains(event.sources[i].url, "mofa.go.jp")
    IN  \/ has_keyword /\ has_severity /\ has_source_snippet /\ has_official_source
        \/ is_mofa_advisory /\ has_source_snippet

\* the opportunity filter's test, were the location not looked at
OpportunityKeepsAnywhere(event, allowed_terms) == HasSnippet(event)

OpportunityKeeps(event, allowed_terms) ==
    LET location_text == Lower(event.location)
        matches_location ==
            IF Len(allowed_terms) > 0
            THEN \E t \in 1..Len(allowed_terms) : Contains(location_text, Lower(allowed_terms[t]))
            ELSE TRUE
    IN  HasSnippet(event) /\ matches_location

\* a quality test that measures the texts without trimming them
QualityKeepsUntrimmed(event) ==
    /\ ~(Len(event.recommendation) < min_length)
    /\ ~(Len(event.proposed_change) < min_length)

QualityKeeps(event) ==
    /\ ~(Len(Strip(event.recommendation)) < min_length)
    /\ ~(Len(Strip(event.proposed_change)) < min_length)

\* tool_input.get("query") or tool_input.get("url") or "" for a dict, str(tool_input) otherwise
EffectiveInput(tool_input) ==
    IF tool_input.isdict
    THEN (IF tool_input.query # "" THEN tool_input.query ELSE tool_input.url)
    ELSE tool_input.str

(***************************************************************************)
(* Inputs of the model: the events the agent may propose, the tool calls   *)
(* it may make, and the responses of one invocation built from them.       *)
(***************************************************************************)
\* the most events in one agent output
MaxEvents == 2

\* the most steps in one action trace
MaxSteps == 4

Src(title, url, snippet) == [title |-> title, url |-> url, snippet |-> snippet]

SrcOfficial == Src("NWS", "https://weather.gov/tokyo", "Heavy snow warning")

SrcBlog == Src("Blog", "https://example.com/fest", "Lantern festival tonight")

\* a redirect wrapper with no uddg target
SrcBadWrap == Src("Link", "https://duckduckgo.com/l/?kh=1", "Lantern festival tonight")

Ev(id, category, title, location, date, description, recommendation, proposed_change, sources) ==
    [id |-> id, category |-> category, title |-> title, location |-> location,
     date |-> date, description |-> description, rationale |-> "Affects the plan",
     recommendation |-> recommendation, proposed_change |-> proposed_change,
     sources |-> sources]

EvHazard ==
    Ev("evt_1", "hazard", "Snow", "Tokyo", "2026-02-03", "Heavy snow storm",
       "Leave one hour earlier", "Move the museum visit", <<SrcOfficial>>)

EvOpp ==
    Ev("evt_2", "opportunity", "Lanterns", "Tokyo Station", "2026-02-04", "Lantern festival",
       "Visit the lantern festival", "Add a lantern walk at 7pm", <<SrcBlog>>)

\* a recommendation shorter than min_length
EvShort ==
    Ev("evt_3", "opportunity", "Market", "Tokyo", "2026-02-02", "Morning market",
       "Go there", "Add a market stop at 9am", <<SrcBlog>>)

\* a date that is not ISO
EvBadDate ==
    Ev("evt_4", "opportunity", "Parade", "Tokyo", "Feb 3 2026", "Street parade",
       "Watch the street parade", "Add the parade after lunch", <<SrcBlog>>)

\* a source that is a redirect wrapper with no target
EvBadWrap ==
    Ev("evt_2", "opportunity", "Concert", "Tokyo", "2026-02-05", "Open air concert",
       "Attend the open air concert", "Add the concert at 8pm.", <<SrcBadWrap>>)

CatalogueSeq == <<EvHazard, EvOpp, EvShort, EvBadDate, EvBadWrap>>

Catalogue == {CatalogueSeq[i] : i \in 1..Len(CatalogueSeq)}

RECURSIVE Pow(_, _)
Pow(b, e) == IF e = 0 THEN 1 ELSE b * Pow(b, e - 1)

\* the number of sequences over K items that are shorter than k
RECURSIVE Offset(_, _)
Offset(K, k) == IF k = 0 THEN 0 ELSE Offset(K, k - 1) + Pow(K, k - 1)

\* the m-th sequence over items, shorter sequences first
SeqAt(items, m, n) ==
    LET K == Len(items)
        k == CHOOSE k \in 0..n : Offset(K, k) < m /\ m <= Offset(K, k + 1)
        c == m - Offset(K, k) - 1
    IN  [i \in 1..k |-> items[((c \div Pow(K, i - 1)) % K) + 1]]

\* the sequences over items of length at most n, as a list
SeqList(items, n) == [m \in 1..Offset(Len(items), n + 1) |-> SeqAt(items, m, n)]

NoRepeat(q) == \A i, j \in 1..Len(q) : i # j => q[i] # q[j]

DictQuery(q) == [isdict |-> TRUE, str |-> "", query |-> q, url |-> ""]

DictUrl(u) == [isdict |-> TRUE, str |-> "", query |-> "", url |-> u]

Step(tool, tool_input) == [tool |-> tool, tool_input |-> tool_input, observation |-> "text"]

WebSearch == Step("web_search", DictQuery("festival events Tokyo"))

WebScrape == Step("web_scrape", DictUrl("https://example.com/fest"))

OfficialSearch == Step("official_hazard_search", DictQuery("snow Tokyo"))

OfficialScrape == Step("official_hazard_scrape", DictUrl("https://weather.gov/tokyo"))

ToolCallSeq == <<WebSearch, WebScrape, OfficialSearch, OfficialScrape>>

ToolCalls == {ToolCallSeq[i] : i \in 1..Len(ToolCallSeq)}

\* every trace that makes each tool call at most once
TracesWide == SelectSeq(SeqList(ToolCallSeq, MaxSteps), NoRepeat)

\* the two web tools; all four tools with web_search first
TracesNarrow ==
    <<<<WebSearch, WebScrape>>,
      <<WebSearch, WebScrape, OfficialSearch, OfficialScrape>>>>

EventList(events) == [kind |-> "EventList", events |-> events]

\* result["output"]: an EventList, text that parses into one, or text that does not
OutputsWide ==
    LET batches == SeqList(CatalogueSeq, MaxEvents)
    IN  [m \in 1..Len(batches) |-> EventList(batches[m])]

\* the batch that can be accepted
OutputsGood == <<EventList(<<EvHazard, EvOpp>>)>>

\* text that parses into a batch, and text that does not
OutputsText ==
    <<[kind |-> "text", events |-> <<EvHazard, EvOpp>>],
      [kind |-> "garbage", events |-> <<>>]>>

Cross(outputs, traces) ==
    [k \in 1..(Len(outputs) * Len(traces)) |->
        [output |-> outputs[((k - 1) \div Len(traces)) + 1],
         intermediate_steps |-> traces[((k - 1) % Len(traces)) + 1]]]

\* an opportunity on a given date; the itinerary spans 2026-02-01..2026-02-05
EvOn(date) ==
    Ev("evt_5", "opportunity", "Fireworks", "Tokyo", date, "Harbour fireworks",
       "Watch the harbour fireworks", "Add the fireworks at 8pm", <<SrcBlog>>)

\* an opportunity at Tokyo Station on 2026-02-04, as EvOpp is, with the given
\* id, title, proposed_change, description and sources
EvKeyed(id, title, proposed_change, description, sources) ==
    Ev(id, "opportunity", title, "Tokyo Station", "2026-02-04", description,
       "Visit after the dinner slot", proposed_change, sources)

\* a hazard in Tokyo on 2026-02-03 with the given description and sources;
\* its rationale and recommendation hold no hazard keyword and no severity cue
EvRisk(description, sources) ==
    Ev("evt_h", "hazard", "Notice", "Tokyo", "2026-02-03", description,
       "Leave one hour earlier", "Move the museum visit", sources)

\* an opportunity on 2026-02-03 at the given location with the given sources
EvAt(location, sources) ==
    Ev("evt_o", "opportunity", "Market", location, "2026-02-03", "Morning market",
       "Visit the morning market", "Add a market stop at 9am", sources)

\* batches of edge cases
EdgeBatches ==
    \* an event dated outside the span before or after one inside, a date
    \* with a time of day
    <<<<EvOn("2026-02-10")>>, <<EvOn("2026-02-10"), EvOpp>>, <<EvOpp, EvOn("2026-01-31")>>,
      <<EvHazard, EvOn("2026-02-10")>>, <<EvOn("2026-02-04T19:00"), EvOn("2026-02-10")>>,
      <<EvOn("2026-01-31"), EvHazard>>,
      \* three events, the first outside the span or blocked
      <<EvOn("2026-02-10"), EvOpp, EvHazard>>, <<EvOpp, EvHazard, EvOn("2026-02-04")>>,
      \* the five key fields of EvOpp under another id, description and sources
      <<EvOpp, EvKeyed("evt_9", "Lanterns", "Add a lantern walk at 7pm", "Paper lantern evening",
                       <<SrcBlog, SrcOfficial>>)>>,
      <<EvKeyed("evt_9", "Lanterns", "Add a lantern walk at 7pm", "Paper lantern evening",
                <<SrcBlog, SrcOfficial>>), EvHazard>>,
      \* a "|" at the end of the title or at the start of the proposed_change
      <<EvKeyed("evt_8", "Jazz", "Blues|Add the late concert at 9pm", "Jazz night", <<SrcBlog>>),
        EvKeyed("evt_8", "Jazz|Blues", "Add the late concert at 9pm", "Jazz night", <<SrcBlog>>)>>,
      \* hazards: a keyword without a cue, a cue without a keyword, no snippet,
      \* no official source, keyword and cue in the snippet only, upper case
      <<EvRisk("Snow storm", <<Src("NWS", "https://weather.gov/tokyo", "Snow is falling")>>)>>,
      <<EvRisk("Heavy traffic", <<Src("NWS", "https://weather.gov/tokyo", "Tokyo forecast page")>>)>>,
      <<EvRisk("Heavy snow storm", <<Src("NWS", "https://weather.gov/tokyo", "")>>)>>,
      <<EvRisk("Heavy snow storm", <<SrcBlog>>)>>,
      <<EvRisk("Quiet day", <<SrcOfficial>>)>>,
      <<EvRisk("HEAVY SNOW STORM", <<Src("NWS", "https://weather.gov/tokyo", "Tokyo forecast page")>>)>>,
      <<EvRisk("Quiet day", <<SrcBlog>>)>>,
      \* hazards with a source of the advisory domain mofa.go.jp: with and
      \* without a snippet, next to an official source, the snippet on another source
      <<EvRisk("Quiet day", <<Src("MOFA", "https://www.mofa.go.jp/anzen", "Overview for visitors")>>)>>,
      <<EvRisk("Quiet day", <<Src("MOFA", "https://www.mofa.go.jp/anzen", "")>>)>>,
      <<EvRisk("Snow storm", <<Src("NWS", "https://weather.gov/tokyo", "Snow is falling"),
                               Src("MOFA", "https://www.mofa.go.jp/anzen", "Overview for visitors")>>)>>,
      <<EvRisk("Heavy snow storm", <<Src("MOFA", "https://www.mofa.go.jp/anzen", ""), SrcBlog>>)>>,
      \* hazards whose source names a domain in its query or path only
      <<EvRisk("Quiet day", <<Src("Blog", "https://example.com/fest?ref=mofa.go.jp",
                                  "Lantern festival tonight")>>)>>,
      <<EvRisk("Heavy snow storm", <<Src("Blog", "https://example.com/weather.gov/fest",
                                         "Lantern festival tonight")>>)>>,
      <<EvRisk("Snow storm", <<Src("NWS", "https://weather.gov/tokyo", "Snow is falling"),
                               Src("Blog", "https://example.com/fest?ref=mofa.go.jp",
                                   "Lantern festival tonight")>>)>>,
      \* a hazard without a cue next to one with keyword, cue, snippet and official source
      <<EvRisk("Snow storm", <<Src("NWS", "https://weather.gov/tokyo", "Snow is falling")>>),
        EvHazard>>,
      \* opportunities: another city, no snippet, upper case
      <<EvAt("Osaka", <<SrcBlog>>)>>,
      <<EvAt("Tokyo Station", <<Src("Blog", "https://example.com/fest", "")>>)>>,
      <<EvAt("Osaka", <<Src("Blog", "https://example.com/fest", "")>>)>>,
      <<EvAt("TOKYO Tower", <<SrcBlog>>)>>,
      <<EvAt("Tokyo Station", <<SrcBlog>>), EvAt("Osaka", <<SrcBlog>>)>>,
      \* a hazard without a cue, a hazard in a city that is not on the
      \* itinerary, and an opportunity
      <<EvRisk("Snow storm", <<Src("NWS", "https://weather.gov/tokyo", "Snow is falling")>>),
        Ev("evt_8", "hazard", "Snow", "Osaka", "2026-02-03", "Heavy snow storm",
           "Leave one hour earlier", "Move the museum visit", <<SrcOfficial>>),
        EvOpp>>,
      \* advice padded with whitespace: 14 characters once trimmed, next to
      \* advice of exactly min_length characters
      <<Ev("evt_6", "opportunity", "Picnic", "Tokyo", "2026-02-02", "Park picnic",
           "   Bring a picnic      ", "Add a picnic in the park", <<SrcBlog>>),
        Ev("evt_7", "opportunity", "Lunch", "Tokyo", "2026-02-02", "Park lunch",
           "Bring a picnic there", "Add a picnic at noon", <<SrcBlog>>)>>,
      \* a proposed_change of 10 characters once trimmed, next to a
      \* recommendation of min_length - 1 characters
      <<Ev("evt_6", "opportunity", "Picnic", "Tokyo", "2026-02-02", "Park picnic",
           "Bring a picnic to the park", "Add picnic\n\t          ", <<SrcBlog>>),
        Ev("evt_7", "opportunity", "Lunch", "Tokyo", "2026-02-02", "Park lunch",
           "Bring a picnic here", "Add a picnic in the park", <<SrcBlog>>)>>>>

\* the batches of edge cases, each with the trace that uses all four tools
OutputsEdge == [m \in 1..Len(EdgeBatches) |-> EventList(EdgeBatches[m])]

\* the responses of one agent invocation, in a fixed order so that a response
\* is named by its index: every batch and both kinds of text with a few
\* traces, every trace with the batch that can be accepted, every batch of
\* edge cases with one trace
\* a redirect wrapper whose uddg target is the URL of SrcBlog
SrcWrapped ==
    Src("Blog", "https://duckduckgo.com/l/?uddg=https%3A%2F%2Fexample.com%2Ffest",
        "Lantern festival tonight")

\* batches for the audit of the action trace: the batch that can be accepted,
\* the same with the opportunity's source behind a redirect wrapper, a hazard
\* without a severity cue next to an opportunity, an opportunity alone, and
\* three opportunities that each fail one check
AuditBatches ==
    <<<<EvHazard, EvOpp>>,
      <<EvHazard, [EvOpp EXCEPT !.sources = <<SrcWrapped>>]>>,
      <<EvRisk("Snow storm", <<Src("NWS", "https://weather.gov/tokyo", "Snow is falling")>>),
        EvOpp>>,
      <<EvOpp>>,
      <<EvBadWrap, EvBadDate, EvShort>>>>

\* the batches of AuditBatches, and text that does not parse
OutputsAudit ==
    [m \in 1..Len(AuditBatches) |-> EventList(AuditBatches[m])] \o <<OutputsText[2]>>

\* action traces for the audit: the two of TracesNarrow; the scrape given
\* the redirect wrapper; another page scraped; the scrape that returned the
\* fetch-failure sentinel of tools.py; and a trace with str inputs, a step
\* without a tool name, a tool that has no bucket, dict inputs with both keys
\* and with none, and tools called twice
AuditTraces ==
    <<TracesNarrow[1],
      TracesNarrow[2],
      <<WebSearch, Step("web_scrape", DictUrl(SrcWrapped.url)), OfficialSearch, OfficialScrape>>,
      <<WebSearch, Step("web_scrape", DictUrl("https://example.com/other")),
        OfficialSearch, OfficialScrape>>,
      <<WebSearch,
        [WebScrape EXCEPT !.observation = "Fetch failed: request error or timeout"],
        OfficialSearch, OfficialScrape>>,
      <<Step("web_search", [isdict |-> FALSE, str |-> "festival events", query |-> "", url |-> ""]),
        Step("", DictQuery("lost")),
        Step("calculator", [isdict |-> FALSE, str |-> "1+1", query |-> "", url |-> ""]),
        Step("web_scrape", [isdict |-> TRUE, str |-> "", query |-> "fest",
                            url |-> "https://example.com/fest"]),
        OfficialScrape,
        Step("official_hazard_search", [isdict |-> TRUE, str |-> "", query |-> "", url |-> ""]),
        Step("official_hazard_scrape", DictUrl(SrcWrapped.url)),
        WebScrape,
        WebSearch>>>>

ResponseList ==
    Cross(OutputsWide, TracesNarrow) \o Cross(OutputsText, TracesNarrow)
    \o Cross(OutputsGood, TracesWide) \o Cross(OutputsEdge, <<TracesNarrow[2]>>)
    \o Cross(OutputsAudit, AuditTraces)

Responses == {ResponseList[r] : r \in 1..Len(ResponseList)}

\* extract_itinerary_context of the itinerary of the model
Context ==
    [date_min |-> "2026-02-01", date_max |-> "2026-02-05",
     cities |-> <<"Tokyo">>, locations |-> <<>>]

(***************************************************************************)
(* Tables of the pure helpers over the strings and events of the model's   *)
(* inputs. TLC evaluates a table once; a value outside a table is computed *)
(* by the helper itself, so the tables change no result.                   *)
(***************************************************************************)
Core(event) == [event EXCEPT !.id = ""]

EdgeEvents ==
    UNION {Range(EdgeBatches[m]) : m \in 1..Len(EdgeBatches)}
    \cup UNION {Range(AuditBatches[m]) : m \in 1..Len(AuditBatches)}

KnownEvents == Catalogue \cup EdgeEvents

Cores == {Core(e) : e \in KnownEvents}

KnownUrls ==
    UNION {{e.sources[i].url : i \in 1..Len(e.sources)} : e \in KnownEvents}
    \cup {EffectiveInput(c.tool_input) : c \in ToolCalls}
    \cup UNION {{EffectiveInput(AuditTraces[t][p].tool_input) : p \in 1..Len(AuditTraces[t])} :
                   t \in 1..Len(AuditTraces)}

KnownDomainLists == {DefaultOfficialDomains, <<>>}

KnownTermLists == {Context.cities \o Context.locations}

KnownDates == {e.date : e \in KnownEvents} \cup {Context.date_min, Context.date_max}

NormalizeTable == [u \in KnownUrls |-> _normalize_url(u)]

KeyTable == [c \in Cores |-> EventKey(c)]

HazardTable == [k \in Cores \X KnownDomainLists |-> HazardKeeps(k[1], k[2])]

OpportunityTable == [k \in Cores \X KnownTermLists |-> OpportunityKeeps(k[1], k[2])]

QualityTable == [c \in Cores |-> QualityKeeps(c)]

IsoTable == [d \in KnownDates |-> _is_iso_date(d)]

DateTable == [d \in KnownDates |-> _parse_event_date(d)]

Normalized(url) == IF url \in KnownUrls THEN NormalizeTable[url] ELSE _normalize_url(url)

KeyOf(event) == IF Core(event) \in Cores THEN KeyTable[Core(event)] ELSE EventKey(event)

HazardKept(event, official_domains) ==
    IF Core(event) \in Cores /\ official_domains \in KnownDomainLists
    THEN HazardTable[<<Core(event), official_domains>>]
    ELSE HazardKeeps(event, official_domains)

OpportunityKept(event, allowed_terms) ==
    IF Core(event) \in Cores /\ allowed_terms \in KnownTermLists
    THEN OpportunityTable[<<Core(event), allowed_terms>>]
    ELSE OpportunityKeeps(event, allowed_terms)

QualityKept(event) ==
    IF Core(event) \in Cores THEN QualityTable[Core(event)] ELSE QualityKeeps(event)

IsIso(value) == IF value \in KnownDates THEN IsoTable[value] ELSE _is_iso_date(value)

ParsedDate(value) == IF value \in KnownDates THEN DateTable[value] ELSE _parse_event_date(value)

(***************************************************************************)
(* agent.py: id assignment and the three filters. A batch is a sequence of *)
(* events; each filter returns the events it keeps, in order.              *)
(***************************************************************************)
\* _assign_event_ids, were it to leave the ids the agent wrote
KeepAgentIds(events) == events

\* _assign_event_ids: every event's id is recomputed from its five key fields
\* an id assignment that digests the id the event has along with its key
AssignChained(event) ==
    [event EXCEPT !.id = "evt_" \o Digest(KeyOf(event) \o "|" \o event.id)]

AssignOne(event) == [event EXCEPT !.id = "evt_" \o Digest(KeyOf(event))]

_assign_event_ids(events) == [i \in 1..Len(events) |-> AssignOne(events[i])]

\* a hazard filter that puts every event to the hazard test, whatever its category
FilterEveryCategory(events, official_domains) ==
    LET Keep(event) == HazardKept(event, official_domains)
    IN  SelectSeq(events, Keep)

_filter_hazards(events, official_domains) ==
    LET Keep(event) == event.category # "hazard" \/ HazardKept(event, official_domains)
    IN  SelectSeq(events, Keep)

_filter_opportunities(events, allowed_terms) ==
    LET Keep(event) == event.category # "opportunity" \/ OpportunityKept(event, allowed_terms)
    IN  SelectSeq(events, Keep)

\* _filter_solution_quality: the kept events and the removed flag it returns
_filter_solution_quality(events) ==
    LET kept == SelectSeq(events, QualityKept)
    IN  [events |-> kept, removed |-> Len(kept) # Len(events)]

(***************************************************************************)
(* agent.py: the tool-usage auditor. A step of the action trace is         *)
(* [tool, tool_input, observation]; tool_input is a str (isdict FALSE,     *)
(* field str) or a dict (isdict TRUE, fields query and url, "" if absent). *)
(***************************************************************************)
\* the effective inputs of the calls of one tool, in order
InputsOf(steps, tool_name) ==
    LET Mine(step) == step.tool = tool_name
        mine == SelectSeq(steps, Mine)
    IN  [i \in 1..Len(mine) |-> EffectiveInput(mine[i].tool_input)]

NormalizeAll(urls) == [i \in 1..Len(urls) |-> Normalized(urls[i])]

\* a collector that files the inputs of both scrape tools under scrapes
UsageWithMergedScrapes(intermediate_steps) ==
    LET Named(step) == step.tool # ""
        named == SelectSeq(intermediate_steps, Named)
        Scrape(step) == step.tool \in {"web_scrape", "official_hazard_scrape"}
        scraped == SelectSeq(intermediate_steps, Scrape)
    IN  [searches |-> InputsOf(intermediate_steps, "web_search"),
         scrapes |-> [i \in 1..Len(scraped) |-> Normalized(EffectiveInput(scraped[i].tool_input))],
         official_searches |-> InputsOf(intermediate_steps, "official_hazard_search"),
         official_scrapes |-> NormalizeAll(InputsOf(intermediate_steps, "official_hazard_scrape")),
         order |-> [i \in 1..Len(named) |-> named[i].tool]]

_collect_tool_usage(intermediate_steps) ==
    LET Named(step) == step.tool # ""
        named == SelectSeq(intermediate_steps, Named)
    IN  [searches |-> InputsOf(intermediate_steps, "web_search"),
         scrapes |-> NormalizeAll(InputsOf(intermediate_steps, "web_scrape")),
         official_searches |-> InputsOf(intermediate_steps, "official_hazard_search"),
         official_scrapes |-> NormalizeAll(InputsOf(intermediate_steps, "official_hazard_scrape")),
         order |-> [i \in 1..Len(named) |-> named[i].tool]]

\* _extract_source_urls: the normalized non-empty source URLs of a batch, in order
RECURSIVE _extract_source_urls(_)
_extract_source_urls(events) ==
    IF Len(events) = 0 THEN <<>>
    ELSE LET HasUrl(src) == src.url # ""
             srcs == SelectSeq(Head(events).sources, HasUrl)
         IN  [i \in 1..Len(srcs) |-> Normalized(srcs[i].url)]
             \o _extract_source_urls(Tail(events))

(***************************************************************************)
(* agent.py: detect_events. args holds the call's arguments                *)
(* (blocked_event_ids, queries, context, required_categories, max_events); *)
(* official_domains is the value of tools.OFFICIAL_DOMAINS.                *)
(***************************************************************************)
\* lines 275-279 and 326-330: id assignment, then the three filters
FilterPass(events, args, official_domains) ==
    LET allowed_terms == args.context.cities \o args.context.locations
    IN  _filter_solution_quality(
            _filter_opportunities(
                _filter_hazards(_assign_event_ids(events), official_domains),
                allowed_terms))

\* has_required_tools, were lines 288-290 missing
HasRequiredToolsUnordered(usage, events, official_domains) ==
    LET base == Len(usage.searches) > 0 /\ Len(usage.scrapes) > 0
        hazard_events == \E i \in 1..Len(events) : events[i].category = "hazard"
    IN  IF hazard_events /\ Len(official_domains) > 0
        THEN base /\ Len(usage.official_searches) > 0 /\ Len(usage.official_scrapes) > 0
        ELSE base

\* has_required_tools, were the official tools required whenever there is an allowlist
HasRequiredToolsAnyBatch(usage, events, official_domains) ==
    /\ Len(usage.searches) > 0 /\ Len(usage.scrapes) > 0
    /\ Len(usage.order) > 0 => usage.order[1] = "web_search"
    /\ Len(official_domains) > 0 =>
           Len(usage.official_searches) > 0 /\ Len(usage.official_scrapes) > 0

\* lines 287-297: has_required_tools
HasRequiredTools(usage, events, official_domains) ==
    LET base == Len(usage.searches) > 0 /\ Len(usage.scrapes) > 0
        ordered == IF Len(usage.order) > 0
                   THEN base /\ usage.order[1] = "web_search"
                   ELSE base
        hazard_events == \E i \in 1..Len(events) : events[i].category = "hazard"
    IN  IF hazard_events /\ Len(official_domains) > 0
        THEN ordered /\ Len(usage.official_searches) > 0 /\ Len(usage.official_scrapes) > 0
        ELSE ordered

\* missing_sources, were the scraped URLs not consulted
NoMissingSources(source_urls, scraped_urls) == <<>>

\* lines 282-284: the source URLs of the batch that no scrape call fetched
MissingSources(source_urls, scraped_urls) ==
    LET Missing(url) == url # "" /\ url \notin scraped_urls
    IN  SelectSeq(source_urls, Missing)

\* line 285: the events whose date is not YYYY-MM-DD
InvalidDates(events) ==
    LET BadDate(event) == ~IsIso(event.date)
    IN  SelectSeq(events, BadDate)

\* has_required_categories, were all(...) an any(...)
AnyRequiredCategory(events, required_categories) ==
    \E c \in 1..Len(required_categories) :
        \E i \in 1..Len(events) : events[i].category = required_categories[c]

\* lines 298-301: has_required_categories
HasRequiredCategories(events, required_categories) ==
    \A c \in 1..Len(required_categories) :
        \E i \in 1..Len(events) : events[i].category = required_categories[c]

\* lines 303-309: the acceptance test of a round
Verdict(events, solutions_filtered, missing_sources, invalid_dates, has_required_tools, has_required_categories) ==
    [events |-> events,
     missing_sources |-> missing_sources,
     invalid_dates |-> Len(invalid_dates) > 0,
     solutions_filtered |-> solutions_filtered,
     accept |-> /\ has_required_tools
                /\ Len(missing_sources) = 0
                /\ has_required_categories
                /\ Len(invalid_dates) = 0
                /\ ~solutions_filtered]

\* lines 281-301: the audit of a filtered batch against the tool usage
Judge(pass, usage, args, official_domains) ==
    Verdict(pass.events, pass.removed,
            MissingSources(_extract_source_urls(pass.events),
                           Range(usage.scrapes) \cup Range(usage.official_scrapes)),
            InvalidDates(pass.events),
            HasRequiredTools(usage, pass.events, official_domains),
            HasRequiredCategories(pass.events, args.required_categories))

\* lines 275-309: what one round computes from a parsed batch and the action trace
RoundEval(parsed, intermediate_steps, args, official_domains) ==
    Judge(FilterPass(parsed, args, official_domains),
          _collect_tool_usage(intermediate_steps), args, official_domains)

\* the arguments main.py and service.py pass for the itinerary of the model
BaseArgs(blocked_event_ids, max_events) ==
    [blocked_event_ids |-> blocked_event_ids,
     queries |-> <<"festival events Tokyo 2026-02-01 2026-02-05">>,
     context |-> Context,
     required_categories |-> <<"hazard", "opportunity">>,
     max_events |-> max_events]

KnownDomainSeq == <<DefaultOfficialDomains, <<>>>>

\* RoundEval over the responses of the model (evaluated once)
RoundTable ==
    [k \in 1..(Len(ResponseList) * Len(KnownDomainSeq)) |->
        LET resp == ResponseList[((k - 1) \div Len(KnownDomainSeq)) + 1]
            od == KnownDomainSeq[((k - 1) % Len(KnownDomainSeq)) + 1]
        IN  IF resp.output.kind = "garbage" THEN <<>>
            ELSE <<RoundEval(resp.output.events, resp.intermediate_steps, BaseArgs(<<>>, 0), od)>>]

\* what round r (an index of ResponseList) computes
Round(r, args, official_domains) ==
    LET resp == ResponseList[r]
    IN  IF /\ \E d \in 1..Len(KnownDomainSeq) : KnownDomainSeq[d] = official_domains
           /\ args.context = Context
           /\ args.required_categories = BaseArgs(<<>>, 0).required_categories
        THEN LET d == CHOOSE d \in 1..Len(KnownDomainSeq) : KnownDomainSeq[d] = official_domains
             IN  RoundTable[(r - 1) * Len(KnownDomainSeq) + d][1]
        ELSE RoundEval(resp.output.events, resp.intermediate_steps, args, official_domains)

\* corrective guidance that replaces the hints instead of extending them
CorrectiveWithoutSeed(hints, ev) ==
    "IMPORTANT: You must use web_search first, then web_scrape each source URL."
    \o (IF Len(ev.missing_sources) > 0
        THEN "\nScrape these URLs: " \o Join(ev.missing_sources, ", ") ELSE "")
    \o (IF ev.invalid_dates
        THEN "\nUse ISO dates only (YYYY-MM-DD) for event.date." ELSE "")
    \o (IF ev.solutions_filtered
        THEN "\nProvide concrete recommendation and proposed_change with at least 20 characters."
        ELSE "")

\* lines 314-323: the corrective guidance appended after a round that was not accepted
Corrective(hints, ev) ==
    hints
    \o "\nIMPORTANT: You must use web_search first, then web_scrape each source URL."
    \o (IF Len(ev.missing_sources) > 0
        THEN "\nScrape these URLs: " \o Join(ev.missing_sources, ", ") ELSE "")
    \o (IF ev.invalid_dates
        THEN "\nUse ISO dates only (YYYY-MM-DD) for event.date." ELSE "")
    \o (IF ev.solutions_filtered
        THEN "\nProvide concrete recommendation and proposed_change with at least 20 characters."
        ELSE "")

\* lines 332-343, were the span not applied
NoDateSpanFilter(events, context) == events

\* lines 332-343: the itinerary date-span restriction
DateSpanFilter(events, context) ==
    LET parsed_min == IF context.date_min # "" THEN ParsedDate(context.date_min) ELSE NoDate
        parsed_max == IF context.date_max # "" THEN ParsedDate(context.date_max) ELSE NoDate
        InSpan(event) ==
            LET event_date == ParsedDate(event.date)
            IN  event_date # NoDate /\ DateLeq(parsed_min, event_date)
                                    /\ DateLeq(event_date, parsed_max)
    IN  IF parsed_min # NoDate /\ parsed_max # NoDate
        THEN SelectSeq(events, InSpan) ELSE events

\* line 345, were the blocked ids not consulted
NoBlockedFilter(events, blocked_event_ids) == events

\* line 345: events whose id is in blocked_event_ids are removed
BlockedFilter(events, blocked_event_ids) ==
    LET Free(event) == \A b \in 1..Len(blocked_event_ids) : blocked_event_ids[b] # event.id
    IN  SelectSeq(events, Free)

\* line 346: events.events[:max_events]
Truncate(events, max_events) ==
    IF max_events >= 0
    THEN SubSeq(events, 1, IF max_events < Len(events) THEN max_events ELSE Len(events))
    ELSE SubSeq(events, 1, IF Len(events) + max_events > 0 THEN Len(events) + max_events ELSE 0)

\* the post-loop pass, were line 346 to come before lines 332-345
TruncatedFirst(events, args, official_domains) ==
    BlockedFilter(
        DateSpanFilter(
            Truncate(FilterPass(events, args, official_domains).events, args.max_events),
            args.context),
        args.blocked_event_ids)

\* lines 325-347: the post-loop pass on the last batch
Reconciled(events, args, official_domains) ==
    Truncate(
        BlockedFilter(
            DateSpanFilter(FilterPass(events, args, official_domains).events, args.context),
            args.blocked_event_ids),
        args.max_events)

(***************************************************************************)
(* memory.py: MemoryStore. A dict is the sequence of its items [k, v] in   *)
(* insertion order; state is the dict MemoryStore.state.                   *)
(***************************************************************************)
DictHas(d, key) == \E i \in 1..Len(d) : d[i].k = key

DictGet(d, key) == d[CHOOSE i \in 1..Len(d) : d[i].k = key].v

\* d[key] = value: an existing key keeps its place
DictSet(d, key, value) ==
    IF DictHas(d, key)
    THEN [i \in 1..Len(d) |-> IF d[i].k = key THEN [k |-> key, v |-> value] ELSE d[i]]
    ELSE Append(d, [k |-> key, v |-> value])

\* lines 13-20: the state of a store whose file does not exist
FreshState ==
    [events |-> <<>>, approvals |-> <<>>, history |-> <<>>, run_count |-> 0,
     rejections |-> <<>>, pending_event_ids |-> <<>>]

\* the file of a store that was never saved
NoFile == [exists |-> FALSE, text |-> FreshState]

\* json.dumps / json.loads of the state: str keys, int, bool, str and list
\* values, which JSON gives back as they were
json_dumps(st) == st

json_loads(text) == text

\* load: the state read from the file if it exists
load(st, f) == IF f.exists THEN json_loads(f.text) ELSE st

\* save: the file after write_text
save(st) == [exists |-> TRUE, text |-> json_dumps(st)]

RECURSIVE add_events_from(_, _, _)
add_events_from(known, existing_ids, events) ==
    IF Len(events) = 0 THEN known
    ELSE LET event_id == Head(events).id
         IN  IF event_id # "" /\ event_id \in existing_ids
             THEN add_events_from(known, existing_ids, Tail(events))
             ELSE add_events_from(Append(known, Head(events)),
                                  IF event_id # "" THEN existing_ids \cup {event_id}
                                  ELSE existing_ids,
                                  Tail(events))

\* add_events, were every event appended
add_events_all(st, events) == [st EXCEPT !.events = st.events \o events]

add_events(st, events) ==
    [st EXCEPT !.events = add_events_from(st.events, {st.events[i].id : i \in 1..Len(st.events)},
                                          events)]

add_history(st, entry) == [st EXCEPT !.history = Append(st.history, entry)]

\* set_approval, were the rejection recorded for an approval too
set_approval_marks_run(st, event_id, approved) ==
    [st EXCEPT !.approvals = DictSet(st.approvals, event_id, approved),
               !.rejections = DictSet(st.rejections, event_id, st.run_count)]

\* set_approval, were an approval to delete the rejection record of the event
set_approval_clears(st, event_id, approved) ==
    LET Others(item) == item.k # event_id
    IN  IF approved
        THEN [st EXCEPT !.approvals = DictSet(st.approvals, event_id, approved),
                        !.rejections = SelectSeq(st.rejections, Others)]
        ELSE [st EXCEPT !.approvals = DictSet(st.approvals, event_id, approved),
                        !.rejections = DictSet(st.rejections, event_id, st.run_count)]

set_approval(st, event_id, approved) ==
    IF approved
    THEN [st EXCEPT !.approvals = DictSet(st.approvals, event_id, approved)]
    ELSE [st EXCEPT !.approvals = DictSet(st.approvals, event_id, approved),
                    !.rejections = DictSet(st.rejections, event_id, st.run_count)]

\* increment_run_count, were the counter set to the number of recorded rejections
count_rejections(st) == [st EXCEPT !.run_count = Len(st.rejections)]

increment_run_count(st) == [st EXCEPT !.run_count = st.run_count + 1]

\* get_blocked_event_ids, were line 57 to compare with <
get_blocked_strict(st, ttl) ==
    LET Blocked(item) == st.run_count - item.v < ttl
        items == SelectSeq(st.rejections, Blocked)
    IN  [i \in 1..Len(items) |-> items[i].k]

get_blocked_event_ids(st, ttl) ==
    LET Blocked(item) == st.run_count - item.v <= ttl
        items == SelectSeq(st.rejections, Blocked)
    IN  [i \in 1..Len(items) |-> items[i].k]

\* items[-max_entries:]: the last max_entries items; all of them for 0; all but
\* the first -max_entries for a negative max_entries
LastEntries(items, max_entries) ==
    LET start == IF max_entries > 0
                 THEN (IF Len(items) > max_entries THEN Len(items) - max_entries ELSE 0)
                 ELSE (IF Len(items) > -max_entries THEN -max_entries ELSE Len(items))
    IN  SubSeq(items, start + 1, Len(items))

summarize_history(st, max_entries) == Join(LastEntries(st.history, max_entries), "\n")

\* f"{event_id}: {approved}" for the last max_entries approvals
summarize_approvals(st, max_entries) ==
    LET items == LastEntries(st.approvals, max_entries)
    IN  Join([i \in 1..Len(items) |->
                 items[i].k \o ": " \o (IF items[i].v THEN "True" ELSE "False")], "\n")

(***************************************************************************)
(* State: one detect_events call, the memory store and its file, and the   *)
(* run of main.py around them.                                             *)
(***************************************************************************)
VARIABLES
    OFFICIAL_DOMAINS,   \* tools.py: OFFICIAL_DOMAINS
    call_args,          \* the arguments of the detect_events call
    pc,                 \* detect_events: "loop", "post" (after the loop), "done" (returned), "raised"
    attempt,            \* agent invocations made so far
    queries_blob,       \* the query hints of the next invocation
    result,             \* the response of the last invocation
    last_events,        \* [is_none, events]
    accepted,           \* the loop was left by break
    returned,           \* the batch detect_events returned
    state,              \* MemoryStore.state
    file,               \* the store's file: [exists, text]
    mpc,                \* main.py: "idle" (no process), "run" (between load and save), "api",
                        \* "exit_1" and "http_400" (a run that ended without the credential)
    idx,                \* main.py: position of the approval loop in events.events
    approved_changes,   \* main.py: the ids approved in this run
    call,               \* the last call made on the store and what it returned
    handlers            \* service.py: the approval requests in flight, each with its own MemoryStore

detectvars == <<OFFICIAL_DOMAINS, call_args, pc, attempt, queries_blob, result, last_events,
                accepted, returned>>

memvars == <<state, file, mpc, idx, approved_changes, call, handlers>>

vars == <<OFFICIAL_DOMAINS, call_args, pc, attempt, queries_blob, result, last_events,
          accepted, returned, state, file, mpc, idx, approved_changes, call, handlers>>

NoResult == [output |-> [kind |-> "garbage", events |-> <<>>], intermediate_steps |-> <<>>]

NoCall == [op |-> "", ttl |-> 0, ret |-> <<>>]

\* service.py handles approval requests on two threads at most
Writers == {1, 2}

\* a thread that handles no request
NoRequest == [at |-> "idle", loaded |-> FreshState, memory |-> FreshState,
              event_id |-> "", approved |-> FALSE]

\* lines 248-254
InitDetect(a, od) ==
    /\ OFFICIAL_DOMAINS = od
    /\ call_args = a
    /\ pc = "loop"
    /\ attempt = 0
    /\ queries_blob = Join(a.queries, "\n")
    /\ result = NoResult
    /\ last_events = [is_none |-> TRUE, events |-> <<>>]
    /\ accepted = FALSE
    /\ returned = <<>>

\* a store that no call has touched
InitStore(position) ==
    /\ state = FreshState
    /\ file = NoFile
    /\ mpc = position
    /\ idx = 1
    /\ approved_changes = <<>>
    /\ call = NoCall
    /\ handlers = [w \in Writers |-> NoRequest]

EventId(event) == AssignOne(event).id

\* one detect_events call: either allowlist, nothing blocked or two ids blocked,
\* one the id of an event of the catalogue and one an id the agent echoes
Init ==
    /\ \E od \in {DefaultOfficialDomains, <<>>} :
       \E blocked \in {<<>>, <<EventId(EvOpp), "evt_1">>} :
           InitDetect(BaseArgs(blocked, DefaultMaxEvents), od)
    /\ InitStore("run")

\* lines 269-273: isinstance(output, EventList), else parser.parse(output)
Parses(output) == output.kind # "garbage"

\* lines 256-273, parser.parse raises: no handler, the exception leaves detect_events
RoundRaises(r) ==
    /\ pc = "loop"
    /\ attempt < MaxAttempts
    /\ ~Parses(ResponseList[r].output)
    /\ attempt' = attempt + 1
    /\ result' = ResponseList[r]
    /\ pc' = "raised"
    /\ UNCHANGED <<OFFICIAL_DOMAINS, call_args, queries_blob, last_events, accepted, returned>>
    /\ UNCHANGED memvars

\* lines 256-311: a round whose batch is accepted ends the loop
RoundAccepted(r) ==
    /\ pc = "loop"
    /\ attempt < MaxAttempts
    /\ Parses(ResponseList[r].output)
    /\ LET ev == Round(r, call_args, OFFICIAL_DOMAINS)
       IN  /\ ev.accept
           /\ last_events' = [is_none |-> FALSE, events |-> ev.events]
    /\ attempt' = attempt + 1
    /\ result' = ResponseList[r]
    /\ accepted' = TRUE
    /\ pc' = "post"
    /\ UNCHANGED <<OFFICIAL_DOMAINS, call_args, queries_blob, returned>>
    /\ UNCHANGED memvars

\* a round that is not accepted, were line 313 to keep the first batch it saw
RoundRejectedKeepsFirst(r) ==
    /\ pc = "loop"
    /\ attempt < MaxAttempts
    /\ Parses(ResponseList[r].output)
    /\ LET ev == Round(r, call_args, OFFICIAL_DOMAINS)
       IN  /\ ~ev.accept
           /\ last_events' = IF last_events.is_none
                             THEN [is_none |-> FALSE, events |-> ev.events]
                             ELSE last_events
           /\ queries_blob' = Corrective(queries_blob, ev)
    /\ attempt' = attempt + 1
    /\ result' = ResponseList[r]
    /\ pc' = IF attempt + 1 < MaxAttempts THEN "loop" ELSE "post"
    /\ UNCHANGED <<OFFICIAL_DOMAINS, call_args, accepted, returned>>
    /\ UNCHANGED memvars

\* lines 256-323: a round that is not accepted keeps its batch and extends the hints
RoundRejected(r) ==
    /\ pc = "loop"
    /\ attempt < MaxAttempts
    /\ Parses(ResponseList[r].output)
    /\ LET ev == Round(r, call_args, OFFICIAL_DOMAINS)
       IN  /\ ~ev.accept
           /\ last_events' = [is_none |-> FALSE, events |-> ev.events]
           /\ queries_blob' = Corrective(queries_blob, ev)
    /\ attempt' = attempt + 1
    /\ result' = ResponseList[r]
    /\ pc' = IF attempt + 1 < MaxAttempts THEN "loop" ELSE "post"
    /\ UNCHANGED <<OFFICIAL_DOMAINS, call_args, accepted, returned>>
    /\ UNCHANGED memvars

\* lines 325-347
Reconcile ==
    /\ pc = "post"
    /\ returned' = Reconciled(IF last_events.is_none THEN <<>> ELSE last_events.events,
                              call_args, OFFICIAL_DOMAINS)
    /\ pc' = "done"
    /\ UNCHANGED <<OFFICIAL_DOMAINS, call_args, attempt, queries_blob, result, last_events, accepted>>
    /\ UNCHANGED memvars

Next ==
    \/ \E r \in 1..Len(ResponseList) : RoundRaises(r)
    \/ \E r \in 1..Len(ResponseList) : RoundAccepted(r)
    \/ \E r \in 1..Len(ResponseList) : RoundRejected(r)
    \/ Reconcile

Spec == Init /\ [][Next]_vars

(***************************************************************************)
(* main.py: runs of the CLI, one after the other, on one state file. The   *)
(* agent answers each invocation with one of a few responses.              *)
(***************************************************************************)
\* the most runs that are saved
MaxRuns == 4

\* what the agent answers in a run: the batch that is accepted, a lone
\* opportunity (not accepted), and text that does not parse
RunResponseSet ==
    {[output |-> EventList(<<EvHazard, EvOpp>>), intermediate_steps |-> TracesNarrow[2]],
     [output |-> EventList(<<EvOpp>>), intermediate_steps |-> TracesNarrow[1]],
     [output |-> OutputsText[2], intermediate_steps |-> TracesNarrow[1]]}

RunResponses == {r \in 1..Len(ResponseList) : ResponseList[r] \in RunResponseSet}

\* a run that saves the store as soon as it has counted itself
StartRunSaving ==
    /\ mpc \in {"idle", "exit_1", "http_400"} \/ (mpc = "run" /\ pc = "raised")
    /\ load(FreshState, file).run_count < MaxRuns
    /\ state' = increment_run_count(load(FreshState, file))
    /\ file' = save(state')
    /\ call_args' = BaseArgs(get_blocked_event_ids(state', ttl_runs), DefaultMaxEvents)
    /\ pc' = "loop"
    /\ attempt' = 0
    /\ queries_blob' = Join(call_args'.queries, "\n")
    /\ result' = NoResult
    /\ last_events' = [is_none |-> TRUE, events |-> <<>>]
    /\ accepted' = FALSE
    /\ returned' = <<>>
    /\ mpc' = "run"
    /\ idx' = 1
    /\ approved_changes' = <<>>
    /\ UNCHANGED <<OFFICIAL_DOMAINS, call, handlers>>

\* main.py lines 89-114: the store is loaded, the run counted, the blocked ids
\* read, and detect_events entered. A process that an exception ended saved nothing.
StartRun ==
    /\ mpc \in {"idle", "exit_1", "http_400"} \/ (mpc = "run" /\ pc = "raised")
    /\ load(FreshState, file).run_count < MaxRuns
    /\ state' = increment_run_count(load(FreshState, file))
    /\ call_args' = BaseArgs(get_blocked_event_ids(state', ttl_runs), DefaultMaxEvents)
    /\ pc' = "loop"
    /\ attempt' = 0
    /\ queries_blob' = Join(call_args'.queries, "\n")
    /\ result' = NoResult
    /\ last_events' = [is_none |-> TRUE, events |-> <<>>]
    /\ accepted' = FALSE
    /\ returned' = <<>>
    /\ mpc' = "run"
    /\ idx' = 1
    /\ approved_changes' = <<>>
    /\ UNCHANGED <<OFFICIAL_DOMAINS, file, call, handlers>>

\* main.py lines 118-155: one turn of the approval loop; answer is what input() read
Approve(answer) ==
    /\ mpc = "run"
    /\ pc = "done"
    /\ idx <= Len(returned)
    /\ LET approved == Lower(Strip(answer)) \in {"y", "yes"}
       IN  /\ state' = set_approval(state, returned[idx].id, approved)
           /\ approved_changes' = IF approved THEN Append(approved_changes, returned[idx].id)
                                  ELSE approved_changes
    /\ idx' = idx + 1
    /\ UNCHANGED <<detectvars, handlers, file, mpc, call>>

\* main.py lines 157-162: the run's events and history entry are recorded and saved
FinishRun ==
    /\ mpc = "run"
    /\ pc = "done"
    /\ idx > Len(returned)
    /\ state' = add_history(add_events(state, returned),
                            "Run completed with " \o ToString(Len(returned)) \o " events, "
                            \o ToString(Len(approved_changes)) \o " approved.")
    /\ file' = save(state')
    /\ mpc' = "idle"
    /\ UNCHANGED <<detectvars, handlers, idx, approved_changes, call>>

\* a run that counted itself and saved before it looked for the credential
CountedBeforeCredentialCheck(entry) ==
    /\ mpc \in {"idle", "exit_1", "http_400"} \/ (mpc = "run" /\ pc = "raised")
    /\ load(FreshState, file).run_count < MaxRuns
    /\ state' = increment_run_count(load(FreshState, file))
    /\ file' = save(state')
    /\ mpc' = IF entry = "main" THEN "exit_1" ELSE "http_400"
    /\ UNCHANGED <<detectvars, handlers, idx, approved_changes, call>>

\* main.py lines 80-82, service.py lines 101-102 and 152-153: a run started
\* while GROQ_API_KEY is not set. main prints and returns 1, the two endpoints
\* raise HTTPException(400); no MemoryStore was constructed yet.
MissingCredential(entry) ==
    /\ mpc \in {"idle", "exit_1", "http_400"} \/ (mpc = "run" /\ pc = "raised")
    /\ mpc' = IF entry = "main" THEN "exit_1" ELSE "http_400"
    /\ UNCHANGED <<detectvars, handlers, state, file, idx, approved_changes, call>>

InitRun ==
    /\ InitDetect(BaseArgs(<<>>, DefaultMaxEvents), DefaultOfficialDomains)
    /\ InitStore("idle")

NextRun ==
    \/ StartRun
    \/ \E entry \in {"main", "/detect-events", "/detect-events-with-approvals"} :
           MissingCredential(entry)
    \/ mpc = "run" /\ \E r \in RunResponses : RoundRaises(r)
    \/ mpc = "run" /\ \E r \in RunResponses : RoundAccepted(r)
    \/ mpc = "run" /\ \E r \in RunResponses : RoundRejected(r)
    \/ mpc = "run" /\ Reconcile
    \/ \E answer \in {"y", "n"} : Approve(answer)
    \/ FinishRun

SpecRun == InitRun /\ [][NextRun]_vars

(***************************************************************************)
(* memory.py: the calls of one MemoryStore, in any order.                  *)
(***************************************************************************)
\* the run counter is counted up to here
MaxRunCount == 4

\* get_blocked_event_ids is called with ttl_runs up to here
MaxTtl == 3

EventIds == {"evt_a", "evt_b"}

MemSetApproval(event_id, approved) ==
    /\ state' = set_approval(state, event_id, approved)
    /\ call' = [op |-> "set_approval", ttl |-> 0, ret |-> <<>>,
                event_id |-> event_id, approved |-> approved]
    /\ UNCHANGED <<detectvars, handlers, file, mpc, idx, approved_changes>>

MemIncrementRunCount ==
    /\ state.run_count < MaxRunCount
    /\ state' = increment_run_count(state)
    /\ call' = [op |-> "increment_run_count", ttl |-> 0, ret |-> state'.run_count]
    /\ UNCHANGED <<detectvars, handlers, file, mpc, idx, approved_changes>>

MemGetBlocked(ttl) ==
    /\ call' = [op |-> "get_blocked_event_ids", ttl |-> ttl,
                ret |-> get_blocked_event_ids(state, ttl)]
    /\ UNCHANGED <<detectvars, handlers, state, file, mpc, idx, approved_changes>>

InitMem ==
    /\ InitDetect(BaseArgs(<<>>, DefaultMaxEvents), DefaultOfficialDomains)
    /\ InitStore("api")

NextMem ==
    \/ \E event_id \in EventIds : \E approved \in BOOLEAN : MemSetApproval(event_id, approved)
    \/ MemIncrementRunCount
    \/ \E ttl \in 0..MaxTtl : MemGetBlocked(ttl)

SpecMem == InitMem /\ [][NextMem]_vars

(***************************************************************************)
(* memory.py: every method of one MemoryStore, in any order, on a few      *)
(* event dicts. call holds the method, its argument (events for            *)
(* add_events, ttl for max_entries) and what it returned.                  *)
(***************************************************************************)
\* add_events is called while the stored list is no longer than this
MaxStored == 3

\* add_history is called while the history is shorter than this
MaxHistory == 2

\* memory.py: max_entries: int = 5
DefaultMaxEntries == 5

\* the batches add_events is called with: event dicts with an id seen twice
\* under different titles, another id, and an empty id
StoreBatches ==
    {<<[id |-> "evt_a", title |-> "first"], [id |-> "evt_a", title |-> "second"]>>,
     <<[id |-> "evt_a", title |-> "second"], [id |-> "evt_b", title |-> "third"]>>,
     <<[id |-> "evt_b", title |-> "fourth"]>>,
     <<[id |-> "", title |-> "none"]>>}

MemAddEvents(events) ==
    /\ Len(state.events) + Len(events) <= MaxStored
    /\ state' = add_events(state, events)
    /\ call' = [op |-> "add_events", ttl |-> 0, ret |-> <<>>, events |-> events]
    /\ UNCHANGED <<detectvars, handlers, file, mpc, idx, approved_changes>>

MemAddHistory(entry) ==
    /\ Len(state.history) < MaxHistory
    /\ state' = add_history(state, entry)
    /\ call' = [op |-> "add_history", ttl |-> 0, ret |-> <<>>]
    /\ UNCHANGED <<detectvars, handlers, file, mpc, idx, approved_changes>>

MemSummarizeHistory(max_entries) ==
    /\ call' = [op |-> "summarize_history", ttl |-> max_entries,
                ret |-> summarize_history(state, max_entries)]
    /\ UNCHANGED <<detectvars, handlers, state, file, mpc, idx, approved_changes>>

MemSummarizeApprovals(max_entries) ==
    /\ call' = [op |-> "summarize_approvals", ttl |-> max_entries,
                ret |-> summarize_approvals(state, max_entries)]
    /\ UNCHANGED <<detectvars, handlers, state, file, mpc, idx, approved_changes>>

NextStore ==
    \/ \E events \in StoreBatches : MemAddEvents(events)
    \/ \E entry \in {"Run completed with 1 events, 0 approved."} : MemAddHistory(entry)
    \/ \E approved \in BOOLEAN : MemSetApproval("evt_a", approved)
    \/ MemIncrementRunCount
    \/ MemGetBlocked(ttl_runs)
    \/ \E max_entries \in {0, 1, DefaultMaxEntries} : MemSummarizeHistory(max_entries)
    \/ \E max_entries \in {0, 1, DefaultMaxEntries} : MemSummarizeApprovals(max_entries)

\* the state main.py saved after a first run that returned one event, which
\* the user rejected
SavedState ==
    [events |-> <<[id |-> "evt_b", title |-> "third"]>>,
     approvals |-> <<[k |-> "evt_b", v |-> FALSE]>>,
     history |-> <<"Run completed with 1 events, 0 approved.">>,
     run_count |-> 1,
     rejections |-> <<[k |-> "evt_b", v |-> 1]>>,
     pending_event_ids |-> <<>>]

\* lines 11-21: a store constructed on no file, or on the file of that run
InitStored ==
    /\ InitDetect(BaseArgs(<<>>, DefaultMaxEvents), DefaultOfficialDomains)
    /\ \E f \in {NoFile, save(SavedState)} :
           /\ file = f
           /\ state = load(FreshState, f)
    /\ mpc = "api"
    /\ idx = 1
    /\ approved_changes = <<>>
    /\ call = NoCall
    /\ handlers = [w \in Writers |-> NoRequest]

SpecStore == InitStored /\ [][NextStore]_vars

(***************************************************************************)
(* agent.py: one detect_events call on the batches of edge cases, with the *)
(* arguments a caller may pass: either allowlist, a blocked list, and a    *)
(* max_events from 0 up.                                                   *)
(***************************************************************************)
EdgeResponseSet ==
    Range(Cross(OutputsEdge, <<TracesNarrow[2]>>))
    \cup {[output |-> EventList(<<EvHazard, EvOpp>>), intermediate_steps |-> TracesNarrow[2]],
          [output |-> EventList(<<EvOpp, EvHazard>>), intermediate_steps |-> TracesNarrow[2]],
          [output |-> OutputsText[2], intermediate_steps |-> TracesNarrow[1]]}

EdgeResponses == {r \in 1..Len(ResponseList) : ResponseList[r] \in EdgeResponseSet}

EdgeCalls ==
    {[od |-> od, args |-> BaseArgs(blocked, max_events)] :
        od \in {DefaultOfficialDomains, <<>>},
        blocked \in {<<>>, <<EventId(EvOpp), "evt_1">>},
        max_events \in (0..MaxEvents) \cup {DefaultMaxEvents}}
    \* an itinerary whose context names no city and no location
    \cup {[od |-> DefaultOfficialDomains,
           args |-> [BaseArgs(<<>>, DefaultMaxEvents) EXCEPT !.context.cities = <<>>]]}

InitEdge ==
    /\ \E c \in EdgeCalls : InitDetect(c.args, c.od)
    /\ InitStore("run")

NextEdge ==
    \/ \E r \in EdgeResponses : RoundRaises(r)
    \/ \E r \in EdgeResponses : RoundAccepted(r)
    \/ \E r \in EdgeResponses : RoundRejected(r)
    \/ Reconcile

SpecEdge == InitEdge /\ [][NextEdge]_vars

(***************************************************************************)
(* service.py: /submit-approval and /approve, handled by two threads on    *)
(* the one state file. A handler constructs its own MemoryStore (which     *)
(* reads the file), updates it in memory and saves it; the read and the    *)
(* write are the steps at which the threads interleave. The files that     *)
(* _write_outputs and write_updated_itinerary write are left out.          *)
(***************************************************************************)
\* the state /detect-events saved after a run that returned two events
PendingState ==
    [events |-> <<[id |-> "evt_a", title |-> "first"], [id |-> "evt_b", title |-> "third"]>>,
     approvals |-> <<>>,
     history |-> <<"API run completed with 2 events.">>,
     run_count |-> 1,
     rejections |-> <<>>,
     pending_event_ids |-> <<"evt_a", "evt_b">>]

\* Python: items.remove(value) when value in items
ListRemove(items, value) ==
    IF \E i \in 1..Len(items) : items[i] = value
    THEN LET first == CHOOSE i \in 1..Len(items) :
                          items[i] = value /\ \A j \in 1..(i - 1) : items[j] # value
         IN  SubSeq(items, 1, first - 1) \o SubSeq(items, first + 1, Len(items))
    ELSE items

\* Python: str(bool)
BoolStr(b) == IF b THEN "True" ELSE "False"

\* lines 241-248 and 264-271: the approval, the pending list and the history entry
approval_update(st, event_id, approved) ==
    LET marked == set_approval(st, event_id, approved)
        pending == [marked EXCEPT !.pending_event_ids =
                        ListRemove(marked.pending_event_ids, event_id)]
    IN  add_history(pending, "Approval updated: " \o event_id \o " -> " \o BoolStr(approved))

\* lines 240 and 263: memory = MemoryStore("outputs/state.json")
ApprovalLoad(w, event_id, approved) ==
    /\ handlers[w].at = "idle"
    /\ handlers' = [handlers EXCEPT ![w] =
                       [at |-> "loaded", loaded |-> load(FreshState, file),
                        memory |-> load(FreshState, file),
                        event_id |-> event_id, approved |-> approved]]
    /\ UNCHANGED <<detectvars, state, file, mpc, idx, approved_changes, call>>

\* a handler that reads the file again when it saves and updates what it read
ApprovalSaveReloaded(w) ==
    /\ handlers[w].at = "loaded"
    /\ handlers' = [handlers EXCEPT
                       ![w].memory = approval_update(load(FreshState, file), handlers[w].event_id,
                                                     handlers[w].approved),
                       ![w].at = "done"]
    /\ file' = save(handlers'[w].memory)
    /\ UNCHANGED <<detectvars, state, mpc, idx, approved_changes, call>>

\* lines 241-249 and 264-272: the update in memory, then memory.save()
ApprovalSave(w) ==
    /\ handlers[w].at = "loaded"
    /\ handlers' = [handlers EXCEPT
                       ![w].memory = approval_update(handlers[w].memory, handlers[w].event_id,
                                                     handlers[w].approved),
                       ![w].at = "done"]
    /\ file' = save(handlers'[w].memory)
    /\ UNCHANGED <<detectvars, state, mpc, idx, approved_changes, call>>

InitService ==
    /\ InitDetect(BaseArgs(<<>>, DefaultMaxEvents), DefaultOfficialDomains)
    /\ file \in {NoFile, save(PendingState)}
    /\ state = FreshState
    /\ mpc = "api"
    /\ idx = 1
    /\ approved_changes = <<>>
    /\ call = NoCall
    /\ handlers = [w \in Writers |-> NoRequest]

NextService ==
    \/ \E w \in Writers : \E event_id \in EventIds : \E approved \in BOOLEAN :
           ApprovalLoad(w, event_id, approved)
    \/ \E w \in Writers : ApprovalSave(w)

SpecService == InitService /\ [][NextService]_vars

(***************************************************************************)
(* service.py: the endpoints called one after the other on the one state   *)
(* file. A detection endpoint loads the store, counts the run, calls       *)
(* detect_events (the rounds and the post-loop pass are its steps) and      *)
(* then records and saves; an exception in detect_events ends the request  *)
(* with nothing saved. last_itinerary_rows and the output files that       *)
(* _write_outputs writes are not part of the state modelled here.          *)
(***************************************************************************)
\* an endpoint that writes is handled while the history is shorter than this
MaxApiCalls == 3

DetectEntries == {"/detect-events", "/detect-events-with-approvals"}

\* what the agent answers to the service: the answers of a CLI run, and a
\* batch of two opportunities with the same five key fields
ApiResponseSet ==
    RunResponseSet
    \cup {[output |-> EventList(<<EvOpp, EvKeyed("evt_9", "Lanterns", "Add a lantern walk at 7pm",
                                                "Paper lantern evening",
                                                <<SrcBlog, SrcOfficial>>)>>),
           intermediate_steps |-> TracesNarrow[2]]}

ApiResponses == {r \in 1..Len(ResponseList) : ResponseList[r] \in ApiResponseSet}

\* request.approvals of /detect-events-with-approvals
RequestApprovals ==
    {<<>>,
     <<[k |-> EventId(EvOpp), v |-> TRUE]>>,
     <<[k |-> EventId(EvHazard), v |-> FALSE], [k |-> "evt_1", v |-> TRUE]>>}

\* the ids a client sends to /submit-approval and /approve
SubmittedIds == {EventId(EvOpp), EventId(EvHazard), "evt_1"}

\* lines 139-143 and 190-194: the ids of the events that have no decision
PendingOf(events, approvals) ==
    LET Undecided(event) == ~DictHas(approvals, event.id)
        undecided == SelectSeq(events, Undecided)
    IN  [i \in 1..Len(undecided) |-> undecided[i].id]

\* lines 196-200: request.approvals applied to the returned events, in order
RECURSIVE apply_approvals(_, _, _)
apply_approvals(st, events, approvals) ==
    IF Len(events) = 0 THEN st
    ELSE apply_approvals(IF DictHas(approvals, Head(events).id)
                         THEN set_approval(st, Head(events).id,
                                           DictGet(approvals, Head(events).id))
                         ELSE st,
                         Tail(events), approvals)

\* lines 220-224: _get_event_by_id, None being the empty list
_get_event_by_id(st, event_id) ==
    LET Same(event) == event.id = event_id
        found == SelectSeq(st.events, Same)
    IN  IF Len(found) = 0 THEN <<>> ELSE <<Head(found)>>

\* lines 109-136 and 160-187: the store is loaded, the run counted, the
\* blocked ids read, and detect_events entered
DetectStart(entry) ==
    /\ mpc = "api" \/ (mpc \in DetectEntries /\ pc = "raised")
    /\ Len(load(FreshState, file).history) < MaxApiCalls
    /\ state' = increment_run_count(load(FreshState, file))
    /\ call_args' = BaseArgs(get_blocked_event_ids(state', ttl_runs), DefaultMaxEvents)
    /\ pc' = "loop"
    /\ attempt' = 0
    /\ queries_blob' = Join(call_args'.queries, "\n")
    /\ result' = NoResult
    /\ last_events' = [is_none |-> TRUE, events |-> <<>>]
    /\ accepted' = FALSE
    /\ returned' = <<>>
    /\ mpc' = entry
    /\ UNCHANGED <<OFFICIAL_DOMAINS, file, idx, approved_changes, call, handlers>>

\* lines 138-145: /detect-events records the events, the pending ids and the
\* history entry, and saves
detect_events_endpoint ==
    /\ mpc = "/detect-events"
    /\ pc = "done"
    /\ LET stored == add_events(state, returned)
           pending == [stored EXCEPT !.pending_event_ids = PendingOf(returned, stored.approvals)]
       IN  state' = add_history(pending, "API run completed with "
                                         \o ToString(Len(returned)) \o " events.")
    /\ file' = save(state')
    /\ call' = [op |-> "/detect-events", ttl |-> 0, ret |-> returned]
    /\ mpc' = "api"
    /\ UNCHANGED <<detectvars, idx, approved_changes, handlers>>

\* lines 189-205: /detect-events-with-approvals records the events and the
\* pending ids, then applies the request's approvals, adds the history entry
\* and saves
detect_events_with_approvals(approvals) ==
    /\ mpc = "/detect-events-with-approvals"
    /\ pc = "done"
    /\ LET stored == add_events(state, returned)
           pending == [stored EXCEPT !.pending_event_ids = PendingOf(returned, stored.approvals)]
           decided == apply_approvals(pending, returned, approvals)
       IN  state' = add_history(decided, "API detect+approve completed with "
                                         \o ToString(Len(returned)) \o " events.")
    /\ file' = save(state')
    /\ call' = [op |-> "/detect-events-with-approvals", ttl |-> 0, ret |-> returned]
    /\ mpc' = "api"
    /\ UNCHANGED <<detectvars, idx, approved_changes, handlers>>

\* /next-approval, were it to present the last pending id
NextApprovalFromEnd ==
    /\ mpc = "api"
    /\ state' = load(FreshState, file)
    /\ call' = [op |-> "/next-approval", ttl |-> 0,
                ret |-> IF Len(state'.pending_event_ids) = 0 THEN <<>>
                        ELSE _get_event_by_id(state', state'.pending_event_ids[
                                                          Len(state'.pending_event_ids)])]
    /\ UNCHANGED <<detectvars, file, mpc, idx, approved_changes, handlers>>

\* lines 227-235: /next-approval answers with the stored event of the first
\* pending id; call.ret is the event, or empty for None
next_approval_endpoint ==
    /\ mpc = "api"
    /\ state' = load(FreshState, file)
    /\ call' = [op |-> "/next-approval", ttl |-> 0,
                ret |-> IF Len(state'.pending_event_ids) = 0 THEN <<>>
                        ELSE _get_event_by_id(state', state'.pending_event_ids[1])]
    /\ UNCHANGED <<detectvars, file, mpc, idx, approved_changes, handlers>>

\* lines 238-258 and 261-281: /submit-approval and /approve, the whole handler
submit_approval_endpoint(entry, event_id, approved) ==
    /\ mpc = "api"
    /\ Len(load(FreshState, file).history) < MaxApiCalls
    /\ state' = approval_update(load(FreshState, file), event_id, approved)
    /\ file' = save(state')
    /\ call' = [op |-> entry, ttl |-> 0, ret |-> <<>>, event_id |-> event_id,
                approved |-> approved]
    /\ UNCHANGED <<detectvars, mpc, idx, approved_changes, handlers>>

InitApi ==
    /\ InitDetect(BaseArgs(<<>>, DefaultMaxEvents), DefaultOfficialDomains)
    /\ InitStore("api")

NextApi ==
    \/ \E entry \in DetectEntries : DetectStart(entry)
    \/ mpc \in DetectEntries /\ \E r \in ApiResponses : RoundRaises(r)
    \/ mpc \in DetectEntries /\ \E r \in ApiResponses : RoundAccepted(r)
    \/ mpc \in DetectEntries /\ \E r \in ApiResponses : RoundRejected(r)
    \/ mpc \in DetectEntries /\ Reconcile
    \/ detect_events_endpoint
    \/ \E approvals \in RequestApprovals : detect_events_with_approvals(approvals)
    \/ next_approval_endpoint
    \/ \E entry \in {"/submit-approval", "/approve"} :
       \E event_id \in SubmittedIds : \E approved \in BOOLEAN :
           submit_approval_endpoint(entry, event_id, approved)

SpecApi == InitApi /\ [][NextApi]_vars

(***************************************************************************)
(* tools.py: one call of a tool after the other. call holds the tool call  *)
(* being handled: the request it is making (attempt is the loop variable   *)
(* of _request_with_retries, slept the delays it has slept, in             *)
(* milliseconds), the requests it has finished, and what it returned. A    *)
(* response is modelled by what the tool reads from it: the results of a   *)
(* search page in order, and the text of a page with its tags removed.     *)
(***************************************************************************)
\* tools.py: DEFAULT_RETRIES = int(os.environ.get("WEB_RETRIES", "3"))
DEFAULT_RETRIES == 3

\* WEB_RETRIES is set to a count from 0 up to this
MaxRetries == 3

Tools == {"web_search", "web_scrape", "official_hazard_search", "official_hazard_scrape"}

\* the allowlist tools.py loaded from OFFICIAL_DOMAINS: two domains, or none
NetDomainLists == {<<"weather.gov", "who.int">>, <<>>}

\* a query for the search tools; URLs for the scrape tools: a page, a redirect
\* wrapper, a wrapper without target, a string without scheme, the empty string
ToolInputs(tool) ==
    IF tool \in {"web_search", "official_hazard_search"} THEN {"snow warning Tokyo"}
    ELSE {"https://example.com/fest",
          "https://duckduckgo.com/l/?uddg=https%3A%2F%2Fexample.com%2Ffest",
          "https://duckduckgo.com/l/?kh=1", "example.com/fest", ""}

\* the responses of a successful request: result pages with no result, with
\* four results of which one has an href without scheme, and a page text
Pages ==
    {[results |-> <<>>, text |-> ""],
     [results |-> <<[title |-> "Fest", href |-> "https://duckduckgo.com/l/?uddg=https%3A%2F%2Fexample.com%2Ffest"],
                    [title |-> "About", href |-> "/about"],
                    [title |-> "NWS", href |-> "https://weather.gov/tokyo"],
                    [title |-> "WHO", href |-> "https://who.int/japan"]>>,
      text |-> "  Heavy snow \n\n warning\tfor Tokyo "]}

\* the delay, were it to grow by the same amount after each failure
BackoffLinear(failed) == 500 * (failed + 1)

\* line 88: time.sleep(0.5 * (2**attempt)), in milliseconds
Backoff(failed) == 500 * Pow(2, failed)

RECURSIVE CollapseFrom(_, _, _)
CollapseFrom(s, i, in_space) ==
    IF i > Len(s) THEN ""
    ELSE IF CharAt(s, i) \in Whitespace
         THEN (IF in_space THEN "" ELSE " ") \o CollapseFrom(s, i + 1, TRUE)
         ELSE CharAt(s, i) \o CollapseFrom(s, i + 1, FALSE)

\* lines 59-61: re.sub(r"\s+", " ", text).strip()[:max_len]
_clean_text(text, max_len) ==
    LET cleaned == Strip(CollapseFrom(text, 1, FALSE))
    IN  SubSeq(cleaned, 1, IF max_len < Len(cleaned) THEN max_len ELSE Len(cleaned))

\* lines 92-112: _ddg_search on the response, None being ok = FALSE
_ddg_search(ok, page, limit) ==
    IF ~ok THEN <<>>
    ELSE LET first == SubSeq(page.results, 1,
                             IF limit < Len(page.results) THEN limit ELSE Len(page.results))
             Linked(entry) == _normalize_url(entry.href) # ""
             linked == SelectSeq(first, Linked)
         IN  [i \in 1..Len(linked) |->
                 linked[i].title \o " - " \o _normalize_url(linked[i].href)]

NoToolCall ==
    [op |-> "", at |-> "idle", retries |-> 0, attempt |-> 0, slept |-> <<>>, done |-> <<>>,
     left |-> <<>>, results |-> <<>>, ret |-> ""]

Requesting(tool, retries, left) ==
    [NoToolCall EXCEPT !.op = tool, !.at = "request", !.retries = retries, !.left = left]

Returning(c, text) == [c EXCEPT !.at = "returned", !.ret = text]

\* what the tool does with the response its request returned, None being
\* ok = FALSE: lines 117-122, 134-144, 152-159 and 171-181
AfterRequest(c, ok, page) ==
    LET log == [attempts |-> c.attempt + 1, slept |-> c.slept, ok |-> ok]
        logged == [c EXCEPT !.done = Append(c.done, log)]
    IN  IF c.op = "web_search"
        THEN LET results == _ddg_search(ok, page, 5)
             IN  Returning(logged, IF Len(results) = 0 THEN "No results found."
                                   ELSE Join(results, "\n"))
        ELSE IF c.op = "official_hazard_search"
        THEN LET results == c.results \o _ddg_search(ok, page, 3)
             IN  IF Len(c.left) > 0
                 THEN [logged EXCEPT !.results = results, !.left = Tail(c.left),
                                     !.attempt = 0, !.slept = <<>>]
                 ELSE Returning([logged EXCEPT !.results = results],
                                IF Len(results) = 0 THEN "No official results found."
                                ELSE Join(results, "\n"))
        ELSE IF ~ok THEN Returning(logged, "Fetch failed: request error or timeout")
        ELSE Returning(logged, _clean_text(page.text,
                                           IF c.op = "web_scrape" THEN 2000 ELSE 4000))

\* lines 114-181: a tool is called; retries is DEFAULT_RETRIES as configured
ToolCall(tool, tool_input, retries) ==
    /\ mpc = "net"
    /\ call.at # "request"
    /\ call' =
         IF tool \in {"web_scrape", "official_hazard_scrape"}
         THEN IF _normalize_url(tool_input) = ""
              THEN Returning([NoToolCall EXCEPT !.op = tool, !.retries = retries],
                             "Fetch failed: invalid URL")
              ELSE Requesting(tool, retries, <<>>)
         ELSE IF tool = "official_hazard_search"
         THEN IF Len(OFFICIAL_DOMAINS) = 0
              THEN Returning([NoToolCall EXCEPT !.op = tool, !.retries = retries],
                             "No official domains configured.")
              ELSE Requesting(tool, retries, Tail(OFFICIAL_DOMAINS))
         ELSE Requesting(tool, retries, <<>>)
    /\ UNCHANGED <<detectvars, handlers, state, file, mpc, idx, approved_changes>>

\* lines 81-84: requests.request returned and raise_for_status did not raise
AttemptReturns(page) ==
    /\ mpc = "net"
    /\ call.at = "request"
    /\ call' = AfterRequest(call, TRUE, page)
    /\ UNCHANGED <<detectvars, handlers, state, file, mpc, idx, approved_changes>>

\* lines 85-88: requests.request or raise_for_status raised an Exception
AttemptRaises ==
    /\ mpc = "net"
    /\ call.at = "request"
    /\ call' = IF call.attempt = call.retries
               THEN AfterRequest(call, FALSE, [results |-> <<>>, text |-> ""])
               ELSE [call EXCEPT !.attempt = call.attempt + 1,
                                 !.slept = Append(call.slept, Backoff(call.attempt))]
    /\ UNCHANGED <<detectvars, handlers, state, file, mpc, idx, approved_changes>>

InitNet ==
    /\ \E od \in NetDomainLists : InitDetect(BaseArgs(<<>>, DefaultMaxEvents), od)
    /\ state = FreshState
    /\ file = NoFile
    /\ mpc = "net"
    /\ idx = 1
    /\ approved_changes = <<>>
    /\ call = NoToolCall
    /\ handlers = [w \in Writers |-> NoRequest]

NextNet ==
    \/ \E tool \in Tools : \E tool_input \in ToolInputs(tool) : \E retries \in 0..MaxRetries :
           ToolCall(tool, tool_input, retries)
    \/ \E page \in Pages : AttemptReturns(page)
    \/ AttemptRaises

SpecNet == InitNet /\ [][NextNet]_vars

(***************************************************************************)
(* agent.py: one detect_events call whose invocations answer with the      *)
(* batches and action traces of the audit, with and without an allowlist,  *)
(* and with hazard required or not.                                        *)
(***************************************************************************)
AuditResponses ==
    {r \in 1..Len(ResponseList) :
        ResponseList[r] \in Range(Cross(OutputsAudit, AuditTraces))}

InitAudit ==
    /\ \E od \in {DefaultOfficialDomains, <<>>} :
       \E required \in {<<"hazard", "opportunity">>, <<"opportunity">>} :
           InitDetect([BaseArgs(<<>>, DefaultMaxEvents) EXCEPT !.required_categories = required],
                      od)
    /\ InitStore("run")

NextAudit ==
    \/ \E r \in AuditResponses : RoundRaises(r)
    \/ \E r \in AuditResponses : RoundAccepted(r)
    \/ \E r \in AuditResponses : RoundRejected(r)
    \/ Reconcile

SpecAudit == InitAudit /\ [][NextAudit]_vars

(***************************************************************************)
(* What the claims read off a state: the response of the last invocation   *)
(* (result), its batch after the filters, and the tools its trace used.    *)
(***************************************************************************)
Surviving(resp) == FilterPass(resp.output.events, call_args, OFFICIAL_DOMAINS).events

BeforeQuality(resp) ==
    _filter_opportunities(
        _filter_hazards(_assign_event_ids(resp.output.events), OFFICIAL_DOMAINS),
        call_args.context.cities \o call_args.context.locations)

RecordedOrder(resp) ==
    LET Named(step) == step.tool # ""
        named == SelectSeq(resp.intermediate_steps, Named)
    IN  [i \in 1..Len(named) |-> named[i].tool]

ToolsUsed(resp) == Range(RecordedOrder(resp))

\* the URLs the scrape tools were called with, redirect wrappers unwrapped
ScrapedUrls(resp) ==
    {_normalize_url(EffectiveInput(resp.intermediate_steps[i].tool_input)) :
        i \in {j \in 1..Len(resp.intermediate_steps) :
                 resp.intermediate_steps[j].tool \in {"web_scrape", "official_hazard_scrape"}}}

SourceUrls(events) ==
    UNION {{events[i].sources[j].url : j \in 1..Len(events[i].sources)} : i \in 1..Len(events)}
    \ {""}

SearchAndScrapeUsed(resp) ==
    "web_search" \in ToolsUsed(resp) /\ "web_scrape" \in ToolsUsed(resp)

SearchFirst(resp) ==
    Len(RecordedOrder(resp)) > 0 => RecordedOrder(resp)[1] = "web_search"

OfficialToolsUsed(resp) ==
    ((\E i \in 1..Len(Surviving(resp)) : Surviving(resp)[i].category = "hazard")
        /\ Len(OFFICIAL_DOMAINS) > 0)
    => /\ "official_hazard_search" \in ToolsUsed(resp)
       /\ "official_hazard_scrape" \in ToolsUsed(resp)

\* every source URL was scraped
SourcesScraped(resp) ==
    \A url \in SourceUrls(Surviving(resp)) : _normalize_url(url) \in ScrapedUrls(resp)

\* every source URL that unwraps to a non-empty URL was scraped
UnwrappedSourcesScraped(resp) ==
    \A url \in SourceUrls(Surviving(resp)) :
        _normalize_url(url) # "" => _normalize_url(url) \in ScrapedUrls(resp)

CategoriesPresent(resp) ==
    \A c \in Range(call_args.required_categories) :
        \E i \in 1..Len(Surviving(resp)) : Surviving(resp)[i].category = c

DatesIso(resp) ==
    \A i \in 1..Len(Surviving(resp)) : _is_iso_date(Surviving(resp)[i].date)

QualityRemovedNothing(resp) ==
    \A i \in 1..Len(BeforeQuality(resp)) : QualityKeeps(BeforeQuality(resp)[i])

\* round 1 was made, did not raise, and is the last round so far
AfterRoundOne == attempt = 1 /\ pc # "raised"

LoopEnded == pc \in {"post", "done"}

C2_AsClaimed ==
    /\ attempt <= MaxAttempts
    /\ (pc \in {"post", "done", "raised"} => attempt >= 1)
    /\ (accepted => pc \in {"post", "done"})
    /\ pc # "raised"

(***************************************************************************)
(* C3                                                                      *)
(***************************************************************************)
\* C3: a round whose recorded tool order is non-empty and does not start
\* with web_search is not accepted, and when it is round 1 the loop goes on
\* to a second invocation.
C3_SearchMustComeFirst ==
    (attempt >= 1 /\ pc # "raised" /\ ~SearchFirst(result)) =>
        /\ ~accepted
        /\ attempt = 1 => pc = "loop"

\* C3 witness: round 1 proposed the acceptable batch and used all four tools,
\* web_scrape first, and the loop goes on
C3_Witness ==
    /\ attempt = 1 /\ pc = "loop"
    /\ result.output.events = <<EvHazard, EvOpp>>
    /\ Len(RecordedOrder(result)) > 0
    /\ RecordedOrder(result)[1] = "web_scrape"
    /\ ToolsUsed(result) = {"web_search", "web_scrape", "official_hazard_search",
                            "official_hazard_scrape"}
    /\ SourcesScraped(result) /\ CategoriesPresent(result) /\ DatesIso(result)
    /\ QualityRemovedNothing(result)

(***************************************************************************)
(* C4                                                                      *)
(***************************************************************************)
\* C4 as the claim states it: a round whose output does not parse does not
\* make detect_events raise, and a call in which no round parsed returns
\* the empty batch.
C4_AsClaimed ==
    /\ (attempt >= 1 /\ ~Parses(result.output)) => pc # "raised"
    /\ (pc = "done" /\ last_events.is_none) => returned = <<>>

(***************************************************************************)
(* C5                                                                      *)
(***************************************************************************)
\* C5 as the claim states it: when the output of round 1 does not parse,
\* the loop continues to round 2.
C5_AsClaimed ==
    (attempt = 1 /\ ~Parses(result.output)) => (pc = "loop" /\ attempt < MaxAttempts)

(***************************************************************************)
(* C6                                                                      *)
(***************************************************************************)
RECURSIVE IsSubseq(_, _)
IsSubseq(a, b) ==
    IF Len(a) = 0 THEN TRUE
    ELSE IF Len(b) = 0 THEN FALSE
    ELSE IF Head(a) = Head(b) THEN IsSubseq(Tail(a), Tail(b))
    ELSE IsSubseq(a, Tail(b))

Exhausted == attempt = MaxAttempts /\ ~accepted /\ Parses(result.output)

\* C6: when both rounds parsed and neither was accepted, the call goes on to
\* return, and what it returns is a subsequence of the events the last round
\* parsed, each with its id recomputed and each kept by the three filters.
C6_ExhaustionReturnsLastBatch ==
    /\ Exhausted => pc \in {"post", "done"}
    /\ (Exhausted /\ pc = "done") =>
        /\ IsSubseq([i \in 1..Len(returned) |-> Core(returned[i])],
                    [i \in 1..Len(result.output.events) |-> Core(result.output.events[i])])
        /\ \A i \in 1..Len(returned) :
            /\ returned[i].id = "evt_" \o Digest(EventKey(returned[i]))
            /\ returned[i].category = "hazard" => HazardKeeps(returned[i], OFFICIAL_DOMAINS)
            /\ returned[i].category = "opportunity" =>
                   OpportunityKeeps(returned[i],
                                    call_args.context.cities \o call_args.context.locations)
            /\ QualityKeeps(returned[i])

\* C6 witness: both rounds failed acceptance and a non-empty batch, shorter
\* than what the last round parsed, was returned
C6_Witness ==
    /\ Exhausted /\ pc = "done"
    /\ Len(returned) > 0
    /\ Len(returned) < Len(result.output.events)

C8_BlockedIdsExcluded ==
    pc = "done" =>
        \A i \in 1..Len(returned) :
            "evt_" \o Digest(EventKey(returned[i])) \notin Range(call_args.blocked_event_ids)

\* C8 witness: the last round proposed an event whose recomputed id is
\* blocked and an event whose echoed id is blocked, and the latter is returned
C8_Witness ==
    /\ pc = "done"
    /\ \E i \in 1..Len(result.output.events) :
           "evt_" \o Digest(EventKey(result.output.events[i]))
               \in Range(call_args.blocked_event_ids)
    /\ \E i \in 1..Len(result.output.events) : \E j \in 1..Len(returned) :
           /\ result.output.events[i].id \in Range(call_args.blocked_event_ids)
           /\ Core(result.output.events[i]) = Core(returned[j])

(***************************************************************************)
(* C9                                                                      *)
(***************************************************************************)
Rejected(st, event_id) == DictHas(st.rejections, event_id)

RejectedAt(st, event_id) == DictGet(st.rejections, event_id)

Approved(st, event_id) == DictHas(st.approvals, event_id) /\ DictGet(st.approvals, event_id)

KnownIds(st) ==
    {st.approvals[i].k : i \in 1..Len(st.approvals)}
    \cup {st.rejections[i].k : i \in 1..Len(st.rejections)}

\* in run R+k, 1 <= k <= ttl_runs, no returned event was rejected in run R;
\* an id is blocked in a run only if it was rejected at most ttl_runs runs before
RejectionSticksForTtlRuns ==
    mpc = "run" =>
        /\ pc = "done" =>
            \A i \in 1..Len(returned) :
                Rejected(state, returned[i].id) =>
                    state.run_count - RejectedAt(state, returned[i].id) \notin 1..ttl_runs
        /\ \A b \in Range(call_args.blocked_event_ids) :
               Rejected(state, b) /\ state.run_count - RejectedAt(state, b) <= ttl_runs

\* an approval stays on record until the user rejects the event
ApprovalStays ==
    \A event_id \in KnownIds(state) :
        Approved(state, event_id) =>
            \/ Approved(state', event_id)
            \/ /\ Rejected(state', event_id)
               /\ RejectedAt(state', event_id) = state'.run_count

\* C9: under the run protocol an event rejected in run R is in no final
\* batch of runs R+1 to R+ttl_runs, is not blocked from run R+ttl_runs+1 on,
\* and a recorded approval never expires.
C9_RejectionTtl == []RejectionSticksForTtlRuns /\ [][ApprovalStays]_vars

\* C9 witness: an event rejected in run R is returned again in run
\* R+ttl_runs+1, while an approval of an earlier run is still on record
C9_Witness ==
    /\ mpc = "run" /\ pc = "done"
    /\ \E i \in 1..Len(returned) :
           /\ Rejected(state, returned[i].id)
           /\ state.run_count - RejectedAt(state, returned[i].id) = ttl_runs + 1
    /\ \E event_id \in KnownIds(state) : Approved(state, event_id)

(***************************************************************************)
(* C10                                                                     *)
(***************************************************************************)
\* C10: get_blocked_event_ids(ttl) returns X at run R+k exactly when X's
\* recorded rejection run is R and k <= ttl; an id with no rejection record
\* is not returned.
C10_BlockedIffWithinTtl ==
    call.op = "get_blocked_event_ids" =>
        \A X \in EventIds \cup Range(call.ret) :
            X \in Range(call.ret) <=>
                \E R \in 0..state.run_count : \E k \in 0..call.ttl :
                    /\ Rejected(state, X)
                    /\ RejectedAt(state, X) = R
                    /\ state.run_count = R + k

\* C10 witness: one rejection is returned at k = ttl, another, older than
\* ttl, is not
C10_Witness ==
    /\ call.op = "get_blocked_event_ids"
    /\ call.ttl >= 1
    /\ \E X \in Range(call.ret) : state.run_count - RejectedAt(state, X) = call.ttl
    /\ \E X \in EventIds :
           Rejected(state, X) /\ state.run_count - RejectedAt(state, X) > call.ttl

(***************************************************************************)
(* C11                                                                     *)
(***************************************************************************)
\* the day of a date <<y, m, d>> as one number
DayNumber(date) == date[1] * 10000 + date[2] * 100 + date[3]

SpanSupplied(context) ==
    /\ _parse_event_date(context.date_min) # NoDate
    /\ _parse_event_date(context.date_max) # NoDate

WithinSpan(event, context) ==
    /\ _parse_event_date(event.date) # NoDate
    /\ DayNumber(_parse_event_date(context.date_min)) <= DayNumber(_parse_event_date(event.date))
    /\ DayNumber(_parse_event_date(event.date)) <= DayNumber(_parse_event_date(context.date_max))

\* C11: when the context supplies a valid date_min and date_max, every event
\* of the returned batch has a date d with date_min <= d <= date_max, and an
\* event the last round dated 2026-02-10 is not in the batch.
C11_ReturnedWithinSpan ==
    (pc = "done" /\ SpanSupplied(call_args.context)) =>
        /\ \A i \in 1..Len(returned) : WithinSpan(returned[i], call_args.context)
        /\ \A i \in 1..Len(result.output.events) :
               result.output.events[i].date = "2026-02-10" =>
                   \A j \in 1..Len(returned) :
                       Core(returned[j]) # Core(result.output.events[i])

\* C11 witness: the last round proposed an event dated 2026-02-10 that passed
\* the filters, and the call returned the other event of the batch without it
C11_Witness ==
    /\ pc = "done" /\ SpanSupplied(call_args.context)
    /\ Len(returned) > 0
    /\ \E i \in 1..Len(last_events.events) : last_events.events[i].date = "2026-02-10"

(***************************************************************************)
(* C12                                                                     *)
(***************************************************************************)
\* the events of the last parsed batch, in the agent's order, that the
\* filters kept, that are dated within the span and that are not blocked
Eligible(resp) ==
    LET Free(event) ==
            /\ ~SpanSupplied(call_args.context) \/ WithinSpan(event, call_args.context)
            /\ event.id \notin Range(call_args.blocked_event_ids)
    IN  SelectSeq(Surviving(resp), Free)

\* C12: for max_events >= 0 the returned batch has at most max_events events
\* and is the first max_events of the events that survived the filters, the
\* date span and the blocked list, in the agent's order.
C12_TruncationComesLast ==
    (pc = "done" /\ call_args.max_events >= 0) =>
        /\ Len(returned) <= call_args.max_events
        /\ Len(returned) = IF Len(Eligible(result)) < call_args.max_events
                           THEN Len(Eligible(result)) ELSE call_args.max_events
        /\ \A i \in 1..Len(returned) : returned[i] = Eligible(result)[i]

\* C12 witness: the first event the filters kept was outside the span or
\* blocked, more events than max_events were left, and the call returned the
\* first max_events of them
C12_Witness ==
    /\ pc = "done"
    /\ call_args.max_events >= 1
    /\ Len(returned) = call_args.max_events
    /\ Len(Eligible(result)) > call_args.max_events
    /\ Surviving(result)[1] # Eligible(result)[1]

(***************************************************************************)
(* C13                                                                     *)
(***************************************************************************)
SameKeyFields(e1, e2) ==
    /\ e1.category = e2.category
    /\ e1.date = e2.date
    /\ e1.location = e2.location
    /\ e1.title = e2.title
    /\ e1.proposed_change = e2.proposed_change

\* the events that carry an id assigned by a round or by the post-loop pass
Assigned == Range(last_events.events) \cup Range(returned)

SameFieldsSameId(batch1, batch2) ==
    \A e1 \in batch1 : \A e2 \in batch2 : SameKeyFields(e1, e2) => e1.id = e2.id

\* C13: two events with the same category, date, location, title and
\* proposed_change carry the same assigned id, within a batch, between the
\* last round and the post-loop pass, and from one round to the next,
\* whatever id the agent wrote and whatever their other fields are.
C13_IdIsFunctionOfKeyFields ==
    /\ [](SameFieldsSameId(Assigned, Assigned))
    /\ [][SameFieldsSameId(Range(last_events.events), Range(last_events'.events))]_vars

\* C13 witness: the agent gave two events with the same five fields different
\* ids and descriptions, and both were returned
C13_Witness ==
    /\ pc = "done"
    /\ \E i, j \in 1..Len(result.output.events) :
           /\ SameKeyFields(result.output.events[i], result.output.events[j])
           /\ result.output.events[i].id # result.output.events[j].id
           /\ result.output.events[i].description # result.output.events[j].description
    /\ \E i, j \in 1..Len(returned) :
           returned[i].description # returned[j].description

(***************************************************************************)
(* C14                                                                     *)
(***************************************************************************)
KeyFields == {"category", "date", "location", "title", "proposed_change"}

Differing(e1, e2) == {f \in KeyFields : e1[f] # e2[f]}

\* a "|" in a free-text key field (category is one of two literals)
HasBar(event) == \E f \in KeyFields : Contains(event[f], "|")

\* C14 as the claim states it: two events whose five key fields differ in
\* any field carry different assigned ids.
C14_AsClaimed ==
    \A e1 \in Assigned : \A e2 \in Assigned :
        Differing(e1, e2) # {} => e1.id # e2.id

\* C14, amended: two events whose five key fields differ in exactly one
\* field, or differ while no key field of either holds a "|", carry
\* different assigned ids.
C14_DistinctFieldsDistinctIds ==
    \A e1 \in Assigned : \A e2 \in Assigned :
        \/ Cardinality(Differing(e1, e2)) = 1
        \/ Differing(e1, e2) # {} /\ ~HasBar(e1) /\ ~HasBar(e2)
        => e1.id # e2.id

\* C14 witness: a round assigned ids to two events that differ in the date
\* only, and the ids differ
C14_Witness ==
    /\ pc \in {"post", "done"}
    /\ \E e1 \in Assigned : \E e2 \in Assigned :
           /\ Differing(e1, e2) = {"date"}
           /\ e1.id # e2.id

(***************************************************************************)
(* C15                                                                     *)
(***************************************************************************)
StoredIds(st) == {st.events[i].id : i \in 1..Len(st.events)}

\* the positions of a batch that add_events is to append: an empty id, or an
\* id that is neither stored nor earlier in the batch
FirstSeen(st, events) ==
    {k \in 1..Len(events) :
        \/ events[k].id = ""
        \/ /\ events[k].id \notin StoredIds(st)
           /\ \A m \in 1..(k - 1) : events[m].id # events[k].id}

\* the events of a batch at the given positions, in the batch's order
Picked(events, positions) ==
    [i \in 1..Cardinality(positions) |->
        events[CHOOSE k \in positions : Cardinality({m \in positions : m <= k}) = i]]

OneEventPerId ==
    \A i, j \in 1..Len(state.events) :
        (i # j /\ state.events[i].id # "") => state.events[i].id # state.events[j].id

AddEventsAppendsFirstSeen ==
    call'.op = "add_events" =>
        /\ state'.events = state.events \o Picked(call'.events, FirstSeen(state, call'.events))
        /\ (\A k \in 1..Len(call'.events) : call'.events[k].id \in StoredIds(state) \ {""})
               => state'.events = state.events

\* C15: the stored list holds at most one event per non-empty id; add_events
\* keeps the stored events and their order and appends, in the batch's order,
\* the first event of each id that is not stored yet (every event with an
\* empty id); a batch of stored ids changes nothing.
C15_FirstSeenWins == []OneEventPerId /\ [][AddEventsAppendsFirstSeen]_vars

\* C15 witness: add_events was called with an id that was stored under
\* another title, which stayed, and with a new id, which was appended
C15_Witness ==
    /\ call.op = "add_events"
    /\ \E k \in 1..Len(call.events) :
           /\ call.events[k].id \in StoredIds(state)
           /\ call.events[k] \notin Range(state.events)
    /\ \E k \in 1..Len(call.events) : call.events[k] = state.events[Len(state.events)]

(***************************************************************************)
(* C16                                                                     *)
(***************************************************************************)
\* dicts d1 and d2 agree on every key but key
SameElsewhere(d1, d2, key) ==
    \A i \in 1..Len(d1) : \A j \in 1..Len(d2) :
        /\ d1[i].k # key => (DictHas(d2, d1[i].k) /\ DictGet(d2, d1[i].k) = d1[i].v)
        /\ d2[j].k # key => DictHas(d1, d2[j].k)

SetApprovalFrame ==
    call'.op = "set_approval" =>
        /\ DictHas(state'.approvals, call'.event_id)
        /\ DictGet(state'.approvals, call'.event_id) = call'.approved
        /\ ~call'.approved =>
               /\ DictHas(state'.rejections, call'.event_id)
               /\ DictGet(state'.rejections, call'.event_id) = state.run_count
        /\ call'.approved => state'.rejections = state.rejections
        /\ SameElsewhere(state.approvals, state'.approvals, call'.event_id)
        /\ SameElsewhere(state.rejections, state'.rejections, call'.event_id)
        /\ state'.events = state.events
        /\ state'.history = state.history
        /\ state'.run_count = state.run_count
        /\ state'.pending_event_ids = state.pending_event_ids

\* C16: set_approval(id, approved) sets approvals[id] to approved; for a
\* rejection it also sets rejections[id] to the current run counter; for an
\* approval the rejection map stays as it is; events, history, run_count,
\* pending ids and the entries of every other id stay as they are.
C16_SetApprovalFrame == [][SetApprovalFrame]_vars

\* C16 witness: an id rejected in an earlier run was approved and its
\* rejection is still on record, next to the entries of another id, stored
\* events and history
C16_Witness ==
    /\ call.op = "set_approval" /\ call.approved
    /\ Rejected(state, call.event_id)
    /\ RejectedAt(state, call.event_id) < state.run_count
    /\ \E other \in KnownIds(state) : other # call.event_id /\ Rejected(state, other)
    /\ Len(state.events) > 0 /\ Len(state.history) > 0

(***************************************************************************)
(* C17                                                                     *)
(***************************************************************************)
RunCountStep ==
    /\ call'.op = "increment_run_count" =>
           /\ state'.run_count = state.run_count + 1
           /\ call'.ret = state'.run_count
    /\ call'.op # "increment_run_count" => state'.run_count = state.run_count
    /\ state'.run_count >= state.run_count

\* C17: increment_run_count raises the run counter by exactly 1 and returns
\* the new value; add_events, add_history, set_approval,
\* get_blocked_event_ids and the two summaries leave it as it is; the
\* counter never decreases.
C17_RunCounterMonotonic == [][RunCountStep]_vars

\* C17 witness: the counter was raised to 3 and returned, in a store that
\* holds events, history and a rejection
C17_Witness ==
    /\ call.op = "increment_run_count"
    /\ call.ret = 3 /\ state.run_count = 3
    /\ Len(state.events) > 1 /\ Len(state.history) > 1
    /\ Rejected(state, "evt_a")

(***************************************************************************)
(* C18                                                                     *)
(***************************************************************************)
\* a round parsed result's batch and last_events holds what its filters kept
RoundParsed == attempt >= 1 /\ pc # "raised" /\ Parses(result.output)

\* the filters of the last round kept the event the agent proposed
KeptByRound(event) ==
    \E j \in 1..Len(last_events.events) : Core(last_events.events[j]) = Core(event)

\* the text the hazard filter reads: description, rationale, recommendation
\* and the snippets of the sources
HazardText(event) ==
    Lower(event.description \o " " \o event.rationale \o " " \o event.recommendation
          \o " " \o Join([i \in 1..Len(event.sources) |-> event.sources[i].snippet], " "))

\* the URL's host is the domain or a subdomain of it
BelongsTo(url, domain) ==
    \/ Lower(urlparse(url).netloc) = domain
    \/ EndsWith(Lower(urlparse(url).netloc), "." \o domain)

\* the condition the claim gives for a hazard to be kept
HazardClaimed(event, official_domains) ==
    \/ /\ \E k \in hazard_keywords : Contains(HazardText(event), k)
       /\ \E c \in severity_cues : Contains(HazardText(event), c)
       /\ \E i \in 1..Len(event.sources) : event.sources[i].snippet # ""
       /\ \/ Len(official_domains) = 0
          \/ \E i \in 1..Len(event.sources) : \E d \in 1..Len(official_domains) :
                 BelongsTo(event.sources[i].url, official_domains[d])
    \/ /\ \E i \in 1..Len(event.sources) : BelongsTo(event.sources[i].url, "mofa.go.jp")
       /\ \E i \in 1..Len(event.sources) : event.sources[i].snippet # ""

\* C18 as the claim states it: the hazard filter keeps a hazard exactly when
\* (its text holds a hazard keyword and a severity cue, a source has a
\* snippet, and the allowlist is empty or a source URL is of an allowlisted
\* domain) or (a source URL is of the advisory domain and a source has a
\* snippet).
C18_AsClaimed ==
    RoundParsed =>
        \A i \in 1..Len(result.output.events) :
            (result.output.events[i].category = "hazard" /\ QualityKeeps(result.output.events[i]))
            => (KeptByRound(result.output.events[i])
                <=> HazardClaimed(result.output.events[i], OFFICIAL_DOMAINS))

(***************************************************************************)
(* C19                                                                     *)
(***************************************************************************)
\* the hazards the last round proposed that the quality filter lets through
ProposedHazards ==
    {e \in Range(result.output.events) : e.category = "hazard" /\ QualityKept(e)}

CueInText(event) == \E c \in severity_cues : Contains(HazardText(event), c)

KeywordInText(event) == \E k \in hazard_keywords : Contains(HazardText(event), k)

SourceAmong(event, domains) ==
    \E i \in 1..Len(event.sources) : \E d \in 1..Len(domains) :
        BelongsTo(event.sources[i].url, domains[d])

\* the three tests over the events of the model's inputs (evaluated once)
HazardFacts ==
    [c \in Cores |->
        [cue |-> CueInText(c),
         keyword |-> KeywordInText(c),
         official |-> [domains \in KnownDomainLists |-> SourceAmong(c, domains)]]]

HasCue(event) ==
    IF Core(event) \in Cores THEN HazardFacts[Core(event)].cue ELSE CueInText(event)

HasKeyword(event) ==
    IF Core(event) \in Cores THEN HazardFacts[Core(event)].keyword ELSE KeywordInText(event)

HasOfficialSource(event) ==
    IF Core(event) \in Cores /\ OFFICIAL_DOMAINS \in KnownDomainLists
    THEN HazardFacts[Core(event)].official[OFFICIAL_DOMAINS]
    ELSE SourceAmong(event, OFFICIAL_DOMAINS)

\* a source URL holds the advisory domain's name and a source has a snippet
AdvisoryBacked(event) ==
    /\ \E i \in 1..Len(event.sources) : Contains(event.sources[i].url, "mofa.go.jp")
    /\ HasSnippet(event)

KeptWhenFullyBacked ==
    \A e \in ProposedHazards :
        (HasKeyword(e) /\ HasCue(e) /\ HasSnippet(e) /\ HasOfficialSource(e)) => KeptByRound(e)

\* C19 as the claim states it: every hazard with no severity cue in its text
\* and an official-domain source is dropped, and a hazard with a keyword, a
\* cue, a snippet and an official-domain source is kept.
C19_AsClaimed ==
    RoundParsed =>
        /\ \A e \in ProposedHazards : (~HasCue(e) /\ HasOfficialSource(e)) => ~KeptByRound(e)
        /\ KeptWhenFullyBacked

\* C19, amended: a hazard with no severity cue in its text and an
\* official-domain source is dropped unless one of its source URLs holds the
\* advisory domain mofa.go.jp and one of its sources has a snippet; a hazard
\* with a keyword, a cue, a snippet and an official-domain source is kept.
C19_NoCueDroppedUnlessAdvisory ==
    RoundParsed =>
        /\ \A e \in ProposedHazards :
               (~HasCue(e) /\ HasOfficialSource(e) /\ ~AdvisoryBacked(e)) => ~KeptByRound(e)
        /\ KeptWhenFullyBacked

\* C19 witness: of two hazards with an official source the round dropped the
\* one without a cue and kept the one with keyword, cue and snippet
C19_Witness ==
    /\ RoundParsed
    /\ \E e \in ProposedHazards :
           ~HasCue(e) /\ HasOfficialSource(e) /\ ~AdvisoryBacked(e) /\ ~KeptByRound(e)
    /\ \E e \in ProposedHazards :
           HasKeyword(e) /\ HasCue(e) /\ HasSnippet(e) /\ HasOfficialSource(e) /\ KeptByRound(e)

(***************************************************************************)
(* C20                                                                     *)
(***************************************************************************)
\* the opportunities the last round proposed that the quality filter lets through
ProposedOpportunities ==
    {e \in Range(result.output.events) : e.category = "opportunity" /\ QualityKeeps(e)}

AllowedTerms == call_args.context.cities \o call_args.context.locations

SomeSnippet(event) == \E i \in 1..Len(event.sources) : Len(event.sources[i].snippet) > 0

LocationAllowed(event) ==
    \/ AllowedTerms = <<>>
    \/ \E t \in Range(AllowedTerms) : Contains(Lower(event.location), Lower(t))

\* C20: the opportunity filter keeps an opportunity exactly when a source has
\* a snippet and (there are no allowed terms or its location contains one,
\* whatever the case of the letters); without any snippet it is dropped
\* wherever it is; with the terms [Tokyo] a snippet-backed event at Tokyo
\* Station is kept and one at Osaka is dropped.
C20_OpportunityFilter ==
    RoundParsed =>
        \A e \in ProposedOpportunities :
            /\ KeptByRound(e) <=> (SomeSnippet(e) /\ LocationAllowed(e))
            /\ ~SomeSnippet(e) => ~KeptByRound(e)
            /\ (AllowedTerms = <<"Tokyo">> /\ SomeSnippet(e)) =>
                   /\ e.location = "Tokyo Station" => KeptByRound(e)
                   /\ e.location = "Osaka" => ~KeptByRound(e)

\* C20 witness: with the terms [Tokyo] the round kept the snippet-backed
\* event at Tokyo Station and dropped the one at Osaka
C20_Witness ==
    /\ RoundParsed
    /\ AllowedTerms = <<"Tokyo">>
    /\ \E e \in ProposedOpportunities :
           e.location = "Tokyo Station" /\ SomeSnippet(e) /\ KeptByRound(e)
    /\ \E e \in ProposedOpportunities :
           e.location = "Osaka" /\ SomeSnippet(e) /\ ~KeptByRound(e)

(***************************************************************************)
(* C21                                                                     *)
(***************************************************************************)
\* the length of a text once leading and trailing whitespace is cut off
TrimmedLen(text) ==
    LET solid == {i \in 1..Len(text) : CharAt(text, i) \notin Whitespace}
    IN  IF solid = {} THEN 0
        ELSE (CHOOSE i \in solid : \A j \in solid : i >= j)
             - (CHOOSE i \in solid : \A j \in solid : i <= j) + 1

\* the trimmed lengths of the advice of the events of the model's inputs
\* (evaluated once)
TrimmedLens ==
    [c \in Cores |-> [recommendation |-> TrimmedLen(c.recommendation),
                      proposed_change |-> TrimmedLen(c.proposed_change)]]

TrimmedAdvice(event) ==
    IF Core(event) \in Cores THEN TrimmedLens[Core(event)]
    ELSE [recommendation |-> TrimmedLen(event.recommendation),
          proposed_change |-> TrimmedLen(event.proposed_change)]

TooShort(event) ==
    TrimmedAdvice(event).recommendation < 20 \/ TrimmedAdvice(event).proposed_change < 20

\* some event of the batch is too short
SomeTooShort(events) == \E i \in 1..Len(events) : TooShort(events[i])

\* C21: of the events that reach the quality filter, the filter drops exactly
\* those whose trimmed recommendation or trimmed proposed_change is shorter
\* than 20 characters, keeping the others in order; its flag is true exactly
\* when it dropped one, and a round whose flag is true is not accepted.
C21_QualityFilter ==
    RoundParsed =>
        LET before == BeforeQuality(result)
            Long(event) == ~TooShort(event)
            pass == _filter_solution_quality(before)
        IN  /\ pass.events = SelectSeq(before, Long)
            /\ pass.removed = SomeTooShort(before)
            /\ last_events.events = pass.events
            /\ SomeTooShort(before) => ~accepted

\* a round dropped an event whose padded advice is long only before trimming
\* and kept an event of exactly 20 characters
C21_Witness ==
    /\ RoundParsed
    /\ ~accepted
    /\ \E event \in Range(BeforeQuality(result)) :
           /\ Len(event.recommendation) >= 20
           /\ TrimmedAdvice(event).recommendation < 20
           /\ ~KeptByRound(event)
    /\ \E event \in Range(BeforeQuality(result)) :
           /\ TrimmedAdvice(event).recommendation = 20
           /\ TrimmedAdvice(event).proposed_change = 20
           /\ KeptByRound(event)

(***************************************************************************)
(* C22                                                                     *)
(***************************************************************************)
\* the positions of the trace at which the tool was called
CallsOf(steps, tool) == {p \in 1..Len(steps) : steps[p].tool = tool}

\* the position of the k-th call of the tool
KthCall(steps, tool, k) ==
    CHOOSE p \in CallsOf(steps, tool) :
        Cardinality({q \in CallsOf(steps, tool) : q <= p}) = k

\* a dict input reduced to its query or url field, a str input as it is
Reduced(tool_input) ==
    IF ~tool_input.isdict THEN tool_input.str
    ELSE IF tool_input.query # "" THEN tool_input.query
    ELSE tool_input.url

\* the bucket holds the input of every call of the tool, in call order;
\* with unwrap, a redirect wrapper is replaced by its target
BucketHolds(bucket, steps, tool, unwrap) ==
    /\ Len(bucket) = Cardinality(CallsOf(steps, tool))
    /\ \A k \in 1..Len(bucket) :
           LET given == Reduced(steps[KthCall(steps, tool, k)].tool_input)
           IN  bucket[k] = IF unwrap THEN _normalize_url(given) ELSE given

\* order holds the non-empty tool names of the trace, in call order
OrderHolds(order, steps) ==
    LET named == {p \in 1..Len(steps) : steps[p].tool # ""}
    IN  /\ Len(order) = Cardinality(named)
        /\ \A k \in 1..Len(order) :
               \E p \in named : /\ Cardinality({q \in named : q <= p}) = k
                                 /\ order[k] = steps[p].tool

UsageHolds(usage, steps, unwrap) ==
    /\ OrderHolds(usage.order, steps)
    /\ BucketHolds(usage.searches, steps, "web_search", FALSE)
    /\ BucketHolds(usage.scrapes, steps, "web_scrape", unwrap)
    /\ BucketHolds(usage.official_searches, steps, "official_hazard_search", FALSE)
    /\ BucketHolds(usage.official_scrapes, steps, "official_hazard_scrape", unwrap)

\* C22 as claimed: for the trace of every invocation, order holds the
\* non-empty tool names in call order and each bucket holds the inputs (a
\* dict reduced to its query or url field) of the calls of its tool, in call
\* order, as they were given.
C22_AsClaimed ==
    attempt >= 1 =>
        UsageHolds(_collect_tool_usage(result.intermediate_steps),
                   result.intermediate_steps, FALSE)

\* C22: for the trace of every invocation, order holds the non-empty tool
\* names in call order; searches and official_searches hold the inputs of the
\* calls of their tool in call order, and scrapes and official_scrapes hold
\* them with every redirect wrapper replaced by its target.
C22_UsageInCallOrder ==
    attempt >= 1 =>
        UsageHolds(_collect_tool_usage(result.intermediate_steps),
                   result.intermediate_steps, TRUE)

\* the audited trace has a step without a tool name, a tool without a bucket,
\* a tool called twice and a scrape given a redirect wrapper
C22_Witness ==
    /\ attempt >= 1
    /\ \E p \in 1..Len(result.intermediate_steps) : result.intermediate_steps[p].tool = ""
    /\ \E p \in 1..Len(result.intermediate_steps) :
           result.intermediate_steps[p].tool = "calculator"
    /\ Cardinality(CallsOf(result.intermediate_steps, "web_scrape")) = 2
    /\ \E p \in CallsOf(result.intermediate_steps, "official_hazard_scrape") :
           Reduced(result.intermediate_steps[p].tool_input) = SrcWrapped.url
    /\ Len(_collect_tool_usage(result.intermediate_steps).order)
           = Len(result.intermediate_steps) - 1

(***************************************************************************)
(* C23                                                                     *)
(***************************************************************************)
\* C23: a step that ends a run for want of the credential invokes no agent
\* and leaves the store alone: no invocation is made, the response and the
\* position of detect_events stay, the store's state (its run counter too)
\* is not changed, and the state file is not written.
C23_NoCredentialNoEffect ==
    [][mpc' \in {"exit_1", "http_400"} =>
          /\ attempt' = attempt
          /\ result' = result
          /\ pc' = pc
          /\ state' = state
          /\ load(FreshState, file').run_count = load(FreshState, file).run_count
          /\ file' = file]_vars

\* a run ended for want of the credential after an earlier run was saved
C23_Witness ==
    /\ mpc = "http_400"
    /\ file.exists
    /\ file.text.run_count = 2
    /\ state = file.text

(***************************************************************************)
(* C24                                                                     *)
(***************************************************************************)
\* the other writer loaded the state this writer loaded (so neither load
\* saw the other's save), updated another id and has saved already
SavedBefore(v, w) ==
    /\ v # w
    /\ handlers[v].at = "done"
    /\ handlers[v].loaded = handlers[w].loaded
    /\ handlers[v].event_id # handlers[w].event_id

\* the file holds for the writer's id what the writer loaded, not what it set,
\* and does not hold its history entry
UpdateLost(f, v) ==
    /\ DictHas(f.text.approvals, handlers[v].event_id)
           = DictHas(handlers[v].loaded.approvals, handlers[v].event_id)
    /\ \A i \in 1..Len(f.text.history) :
           f.text.history[i] # handlers[v].memory.history[Len(handlers[v].memory.history)]

\* C24: when a writer saves, the file becomes that writer's full state: what
\* it loaded with its own update applied. If another writer loaded the same
\* file state, updated another id and saved before, that writer's update is
\* no longer in the file.
C24_LastFullStateWins ==
    [][\A w \in Writers :
          (handlers[w].at = "loaded" /\ handlers'[w].at = "done") =>
              /\ file'.text = approval_update(handlers[w].loaded, handlers[w].event_id,
                                              handlers[w].approved)
              /\ DictGet(file'.text.approvals, handlers[w].event_id) = handlers[w].approved
              /\ \A v \in Writers : SavedBefore(v, w) => UpdateLost(file', v)]_vars

\* both writers loaded the file /detect-events saved, the first approved
\* evt_a and saved, the second rejected evt_b and saved: evt_a is pending
\* and without an approval in the file
C24_Witness ==
    /\ handlers[1].at = "done" /\ handlers[2].at = "done"
    /\ handlers[1].loaded = PendingState /\ handlers[2].loaded = PendingState
    /\ handlers[1].event_id = "evt_a" /\ handlers[1].approved
    /\ handlers[2].event_id = "evt_b" /\ ~handlers[2].approved
    /\ file.text = handlers[2].memory
    /\ ~DictHas(file.text.approvals, "evt_a")
    /\ file.text.pending_event_ids = <<"evt_a">>

(***************************************************************************)
(* C25                                                                     *)
(***************************************************************************)
\* C25: the batch a round leaves in last_events is a fixed point of id
\* assignment followed by the three filters: the pass returns the same
\* events in the same order with the same ids and removes nothing; so the
\* batch detect_events returns is the date-span filter, the blocked filter
\* and the truncation applied to last_events as the loop left it.
C25_FilterPassIdempotent ==
    /\ RoundParsed =>
           FilterPass(last_events.events, call_args, OFFICIAL_DOMAINS)
               = [events |-> last_events.events, removed |-> FALSE]
    /\ (RoundParsed /\ pc = "done") =>
           returned = Truncate(BlockedFilter(DateSpanFilter(last_events.events, call_args.context),
                                             call_args.blocked_event_ids),
                               call_args.max_events)

\* the loop ended on a round whose filters dropped one event and kept
\* another, and the kept events were returned
C25_Witness ==
    /\ RoundParsed
    /\ pc = "done"
    /\ Len(last_events.events) >= 1
    /\ Len(last_events.events) < Len(result.output.events)
    /\ returned = last_events.events
    /\ \E i \in 1..Len(returned) : returned[i].id # result.output.events[i].id

(***************************************************************************)
(* C26                                                                     *)
(***************************************************************************)
\* the events of the batch that are not of the category, in order
OtherThan(events, category) ==
    LET Other(event) == event.category # category
    IN  SelectSeq(events, Other)

\* the batch of the last round with its ids assigned, as the filters receive it
Proposed == _assign_event_ids(result.output.events)

AllowedTermsOfCall == call_args.context.cities \o call_args.context.locations

\* C26: of the batch a round parsed, the hazard filter's output holds every
\* event that is not a hazard, unchanged and in order, and the opportunity
\* filter's output (applied to the batch, or to what the hazard filter left)
\* holds every event that is not an opportunity, unchanged and in order; the
\* output of each of the three filters is a subsequence of its input, and the
\* batch the round keeps is the output of the last.
C26_FiltersOnlyRemoveOwnCategory ==
    RoundParsed =>
        LET hazards_out == _filter_hazards(Proposed, OFFICIAL_DOMAINS)
            opportunities_out == _filter_opportunities(hazards_out, AllowedTermsOfCall)
            quality_out == _filter_solution_quality(opportunities_out).events
        IN  /\ OtherThan(hazards_out, "hazard") = OtherThan(Proposed, "hazard")
            /\ IsSubseq(hazards_out, Proposed)
            /\ OtherThan(opportunities_out, "opportunity") = OtherThan(hazards_out, "opportunity")
            /\ IsSubseq(opportunities_out, hazards_out)
            /\ OtherThan(_filter_opportunities(Proposed, AllowedTermsOfCall), "opportunity")
                   = OtherThan(Proposed, "opportunity")
            /\ IsSubseq(_filter_opportunities(Proposed, AllowedTermsOfCall), Proposed)
            /\ IsSubseq(quality_out, opportunities_out)
            /\ last_events.events = quality_out

\* the hazard filter dropped a hazard and kept an opportunity that its own
\* test would not keep, and the opportunity filter dropped an opportunity
\* and kept a hazard
C26_Witness ==
    /\ RoundParsed
    /\ Len(_filter_hazards(Proposed, OFFICIAL_DOMAINS)) < Len(Proposed)
    /\ \E i \in 1..Len(Proposed) :
           /\ Proposed[i].category = "opportunity"
           /\ ~HazardKeeps(Proposed[i], OFFICIAL_DOMAINS)
           /\ KeptByRound(Proposed[i])
    /\ \E i \in 1..Len(Proposed) :
           /\ Proposed[i].category = "hazard"
           /\ ~OpportunityKeeps(Proposed[i], AllowedTermsOfCall)
           /\ KeptByRound(Proposed[i])

(***************************************************************************)
(* C27                                                                     *)
(***************************************************************************)
SeedQueries == Join(call_args.queries, "\n")

\* the step is a round that parsed and was not accepted
RoundFailed == attempt' = attempt + 1 /\ pc' # "raised" /\ ~accepted'

\* the URLs the scrape tools of the trace were given, redirect wrappers unwrapped
Fetched(resp) ==
    {Normalized(EffectiveInput(resp.intermediate_steps[p].tool_input)) :
        p \in CallsOf(resp.intermediate_steps, "web_scrape")
               \cup CallsOf(resp.intermediate_steps, "official_hazard_scrape")}

\* some source URL of the batch was not scraped; with unwrapped_only, a
\* source URL that unwraps to the empty string is not counted
SomeUnscraped(surviving, fetched, unwrapped_only) ==
    \E url \in SourceUrls(surviving) :
        /\ Normalized(url) \notin fetched
        /\ unwrapped_only => Normalized(url) # ""

\* the hints after the round: the hints before it, the reminder, and each of
\* the three other lines when its condition holds
HintsExtended(before, surviving, reached_quality, fetched, unwrapped_only) ==
    before
    \o "\nIMPORTANT: You must use web_search first, then web_scrape each source URL."
    \o (IF SomeUnscraped(surviving, fetched, unwrapped_only)
        THEN "\nScrape these URLs: "
             \o Join(MissingSources(_extract_source_urls(surviving), fetched), ", ")
        ELSE "")
    \o (IF \E i \in 1..Len(surviving) : ~IsIso(surviving[i].date)
        THEN "\nUse ISO dates only (YYYY-MM-DD) for event.date." ELSE "")
    \o (IF Len(surviving) < Len(reached_quality)
        THEN "\nProvide concrete recommendation and proposed_change with at least 20 characters."
        ELSE "")

HazardSurvives == \E i \in 1..Len(last_events.events) : last_events.events[i].category = "hazard"

\* the trace of the last round called both official tools
BothOfficialToolsCalled ==
    /\ CallsOf(result.intermediate_steps, "official_hazard_search") # {}
    /\ CallsOf(result.intermediate_steps, "official_hazard_scrape") # {}

\* every criterion of acceptance but the official tools holds of the last round
OtherCriteriaHold ==
    /\ SearchAndScrapeUsed(result)
    /\ SearchFirst(result)
    /\ UnwrappedSourcesScraped(result)
    /\ CategoriesPresent(result)
    /\ DatesIso(result)
    /\ QualityRemovedNothing(result)

\* C28: a round with a non-empty allowlist whose filters kept a hazard is
\* accepted only if its trace called official_hazard_search and
\* official_hazard_scrape; a round whose filters kept no hazard, or a round
\* with an empty allowlist, is accepted whenever the other criteria hold,
\* whether or not the official tools were called.
C28_OfficialToolsOnSurvivors ==
    RoundParsed =>
        /\ (accepted /\ Len(OFFICIAL_DOMAINS) > 0 /\ HazardSurvives) => BothOfficialToolsCalled
        /\ (OtherCriteriaHold /\ Len(OFFICIAL_DOMAINS) > 0 /\ HazardSurvives
                /\ ~BothOfficialToolsCalled) => ~accepted
        /\ (OtherCriteriaHold /\ (~HazardSurvives \/ Len(OFFICIAL_DOMAINS) = 0)) => accepted

\* with the default allowlist, a round that proposed a hazard the filters
\* dropped was accepted without a call of an official tool
C28_Witness ==
    /\ RoundParsed
    /\ accepted
    /\ Len(OFFICIAL_DOMAINS) > 0
    /\ \E i \in 1..Len(result.output.events) : result.output.events[i].category = "hazard"
    /\ ~HazardSurvives
    /\ CallsOf(result.intermediate_steps, "official_hazard_search") = {}
    /\ CallsOf(result.intermediate_steps, "official_hazard_scrape") = {}

(***************************************************************************)
(* C29                                                                     *)
(***************************************************************************)
\* the page of SrcBlog, as it is and behind a redirect wrapper
TargetOrWrapper == {SrcBlog.url, SrcWrapped.url}

\* the inputs, as given, of the scrape calls of the last round's trace
ScrapeInputs ==
    {Reduced(result.intermediate_steps[p].tool_input) :
        p \in CallsOf(result.intermediate_steps, "web_scrape")
               \cup CallsOf(result.intermediate_steps, "official_hazard_scrape")}

\* missing_sources as the last round computed it
MissingOfRound ==
    Range(RoundEval(result.output.events, result.intermediate_steps, call_args,
                    OFFICIAL_DOMAINS).missing_sources)

\* C29: when a surviving event of a round names the page as its source, be it
\* by the page's URL or by a redirect wrapper of it, the round counts the
\* source as scraped (leaves the page out of missing_sources) exactly when a
\* scrape call of the round was given the page's URL or a redirect wrapper
\* of it; a wrapper is never listed as missing, and a round is accepted only
\* if such a scrape call was made.
C29_LikeForLike ==
    (RoundParsed /\ SourceUrls(last_events.events) \cap TargetOrWrapper # {}) =>
        /\ SrcBlog.url \notin MissingOfRound <=> ScrapeInputs \cap TargetOrWrapper # {}
        /\ SrcWrapped.url \notin MissingOfRound
        /\ accepted => ScrapeInputs \cap TargetOrWrapper # {}

\* a round was accepted whose opportunity names the wrapper as its source
\* while the scrape was given the page's own URL
C29_Witness ==
    /\ RoundParsed
    /\ accepted
    /\ SrcWrapped.url \in SourceUrls(last_events.events)
    /\ SrcBlog.url \notin SourceUrls(last_events.events)
    /\ SrcBlog.url \in ScrapeInputs
    /\ SrcWrapped.url \notin ScrapeInputs

(***************************************************************************)
(* C30                                                                     *)
(***************************************************************************)
\* the scrape calls of the last round's trace that were given the page
ScrapesOfPage ==
    {p \in CallsOf(result.intermediate_steps, "web_scrape")
             \cup CallsOf(result.intermediate_steps, "official_hazard_scrape") :
        Reduced(result.intermediate_steps[p].tool_input) \in TargetOrWrapper}

\* tools.py: what web_scrape returns when the fetch failed
FetchFailed(observation) == StartsWith(observation, "Fetch failed:")

\* C30 as claimed: when a surviving event of a round names the page as its
\* source and every scrape of the page in the round's trace returned the
\* fetch-failure sentinel, the round does not raise, lists the page in
\* missing_sources and is not accepted.
C30_AsClaimed ==
    (/\ attempt >= 1
     /\ Parses(result.output)
     /\ SourceUrls(Surviving(result)) \cap TargetOrWrapper # {}
     /\ ScrapesOfPage # {}
     /\ \A p \in ScrapesOfPage : FetchFailed(result.intermediate_steps[p].observation))
    => /\ pc # "raised"
       /\ SrcBlog.url \in MissingOfRound
       /\ ~accepted

(***************************************************************************)
(* C32                                                                     *)
(***************************************************************************)
\* the last min(n, number of items) items, in their order
LastMin(items, n) ==
    SubSeq(items, Len(items) - (IF n < Len(items) THEN n ELSE Len(items)) + 1, Len(items))

\* the approvals as summarize_approvals writes them
ApprovalLines(items) ==
    [i \in 1..Len(items) |-> items[i].k \o ": " \o (IF items[i].v THEN "True" ELSE "False")]

\* C32 as claimed: summarize_history(n) returns the last min(n, number of
\* entries) history entries in their order and summarize_approvals(n) the
\* last min(n, number of decisions) approvals in insertion order, each
\* joined by newlines, for every n >= 0; neither changes the store.
C32_AsClaimed ==
    /\ [](call.op = "summarize_history" =>
              call.ret = Join(LastMin(state.history, call.ttl), "\n"))
    /\ [](call.op = "summarize_approvals" =>
              call.ret = Join(ApprovalLines(LastMin(state.approvals, call.ttl)), "\n"))
    /\ [][call'.op \in {"summarize_history", "summarize_approvals"} =>
              state' = state /\ file' = file]_vars

(***************************************************************************)
(* C35                                                                     *)
(***************************************************************************)
\* the run of the rejection record of the event is within ttl runs of the current run
WithinWindow(st, event_id, ttl) ==
    /\ DictHas(st.rejections, event_id)
    /\ st.run_count - DictGet(st.rejections, event_id) <= ttl

\* C35: set_approval(X, true) leaves every rejection record as it is, that
\* of X too; set_approval(X, false) sets the record of X to the current
\* run; and get_blocked_event_ids(ttl) returns X exactly when X has a record
\* whose run R has current_run - R <= ttl, whether or not X is approved now.
C35_ApprovalKeepsRejection ==
    /\ [][(call'.op = "set_approval" /\ call'.approved) =>
              state'.rejections = state.rejections]_vars
    /\ [][(call'.op = "set_approval" /\ ~call'.approved) =>
              /\ DictGet(state'.rejections, call'.event_id) = state.run_count
              /\ \A id \in EventIds \ {call'.event_id} :
                     /\ DictHas(state'.rejections, id) = DictHas(state.rejections, id)
                     /\ DictHas(state.rejections, id) =>
                            DictGet(state'.rejections, id) = DictGet(state.rejections, id)]_vars
    /\ [](call.op = "get_blocked_event_ids" =>
              \A id \in EventIds :
                  (\E i \in 1..Len(call.ret) : call.ret[i] = id)
                  <=> WithinWindow(state, id, call.ttl))

\* an event rejected at run 1 and approved later is returned as blocked at
\* run 3 with ttl 2
C35_Witness ==
    /\ call.op = "get_blocked_event_ids"
    /\ call.ttl = ttl_runs
    /\ state.run_count = 3
    /\ DictHas(state.approvals, "evt_a") /\ DictGet(state.approvals, "evt_a")
    /\ DictHas(state.rejections, "evt_a") /\ DictGet(state.rejections, "evt_a") = 1
    /\ call.ret = <<"evt_a">>

(***************************************************************************)
(* C34                                                                     *)
(***************************************************************************)
\* the run counter in the state file
SavedRunCount == load(FreshState, file).run_count

\* C34: in a CLI run the state file changes in one step only, the last of
\* the run, taken when every returned event has its decision; the file then
\* holds the run counter counted up by one, a decision for every returned
\* event, every returned event and one more history entry. Until that step
\* the file is as it was when the run started, so a run that detect_events
\* ended by raising leaves it unchanged, the run counter too.
C34_SavedOnceAtTheEnd ==
    /\ [][file' # file =>
              /\ mpc = "run" /\ mpc' = "idle"
              /\ pc = "done" /\ idx = Len(returned) + 1
              /\ file'.exists
              /\ file'.text.run_count = SavedRunCount + 1
              /\ \A i \in 1..Len(returned) :
                     /\ DictHas(file'.text.approvals, returned[i].id)
                     /\ \E j \in 1..Len(file'.text.events) :
                            file'.text.events[j].id = returned[i].id
              /\ Len(file'.text.history) = Len(load(FreshState, file).history) + 1]_vars
    /\ [](mpc = "run" =>
              /\ state.run_count = SavedRunCount + 1
              /\ Len(state.history) = Len(load(FreshState, file).history))
    /\ [][(mpc = "run" /\ pc' = "raised") => file' = file]_vars

\* the second run ended by an exception after the first run saved its
\* decisions: the file holds the first run's state and counter
C34_Witness ==
    /\ mpc = "run" /\ pc = "raised"
    /\ file.exists
    /\ file.text.run_count = 1
    /\ Len(file.text.approvals) = 2
    /\ Len(file.text.history) = 1
    /\ state.run_count = 2

(***************************************************************************)
(* C36                                                                     *)
(***************************************************************************)
\* the event is dated within the itinerary's span (or there is no span) and
\* its id is not blocked
InSpanAndFree(event) ==
    LET lo == IF call_args.context.date_min # "" THEN ParsedDate(call_args.context.date_min) ELSE NoDate
        hi == IF call_args.context.date_max # "" THEN ParsedDate(call_args.context.date_max) ELSE NoDate
        d == ParsedDate(event.date)
    IN  /\ (lo # NoDate /\ hi # NoDate) => (d # NoDate /\ DateLeq(lo, d) /\ DateLeq(d, hi))
        /\ \A b \in 1..Len(call_args.blocked_event_ids) : call_args.blocked_event_ids[b] # event.id

\* the number of eligible events among the first n of the accepted batch
FreeBefore(n) == Cardinality({j \in 1..n : InSpanAndFree(last_events.events[j])})

InReturned(category) == \E i \in 1..Len(returned) : returned[i].category = category

AcceptedAndReturned == accepted /\ pc = "done"

\* C36 as claimed: a call that ended by acceptance returns at least one
\* event of every required category
C36_AsClaimed ==
    AcceptedAndReturned =>
        \A c \in 1..Len(call_args.required_categories) :
            InReturned(call_args.required_categories[c])

\* C36: a call that ended by acceptance returns a subsequence of the accepted
\* batch, and it returns an event of a required category exactly when the
\* accepted batch has an event of that category that is dated within the
\* itinerary's span, is not blocked and has fewer than max_events such
\* events before it.
C36_AcceptedThenReconciled ==
    AcceptedAndReturned =>
        /\ IsSubseq(returned, last_events.events)
        /\ HasRequiredCategories(last_events.events, call_args.required_categories)
        /\ \A c \in 1..Len(call_args.required_categories) :
               InReturned(call_args.required_categories[c]) <=>
                   \E j \in 1..Len(last_events.events) :
                       /\ last_events.events[j].category = call_args.required_categories[c]
                       /\ InSpanAndFree(last_events.events[j])
                       /\ FreeBefore(j - 1) < call_args.max_events

\* an accepted batch with both required categories of which the call
\* returned one event only
C36_Witness ==
    /\ AcceptedAndReturned
    /\ Len(last_events.events) = 2
    /\ Len(returned) = 1
    /\ ~InReturned("opportunity")
    /\ call_args.max_events = DefaultMaxEvents

(***************************************************************************)
(* C37                                                                     *)
(***************************************************************************)
\* C37 as claimed: the batch detect_events returns holds no two events with
\* the same id
C37_AsClaimed ==
    pc = "done" =>
        \A i, j \in 1..Len(returned) : returned[i].id = returned[j].id => i = j

(***************************************************************************)
(* C33                                                                     *)
(***************************************************************************)
\* the stored state has a pending id with a recorded decision
DecidedButPending(st) ==
    \E i \in 1..Len(st.pending_event_ids) : DictHas(st.approvals, st.pending_event_ids[i])

\* C33 as claimed: whenever no endpoint is being handled, no id of the
\* stored pending_event_ids has a decision recorded in the stored approvals
C33_AsClaimed ==
    mpc = "api" => ~DecidedButPending(load(FreshState, file))

(***************************************************************************)
(* C38                                                                     *)
(***************************************************************************)
StoredPending == load(FreshState, file).pending_event_ids

\* C38: while the stored pending list is not empty /next-approval answers
\* with a stored event whose id is the first pending id, and it changes
\* nothing; a /submit-approval for the first pending id leaves the rest of
\* the list in its order. The events are thus presented in list order, and
\* a list of n ids is empty after exactly n of these submissions.
C38_PendingDrainsInOrder ==
    /\ [][(call'.op = "/next-approval" /\ Len(StoredPending) > 0) =>
              /\ Len(call'.ret) = 1
              /\ call'.ret[1].id = StoredPending[1]
              /\ \E j \in 1..Len(load(FreshState, file).events) :
                     load(FreshState, file).events[j] = call'.ret[1]
              /\ file' = file]_vars
    /\ [][(call'.op = "/next-approval" /\ Len(StoredPending) = 0) =>
              call'.ret = <<>> /\ file' = file]_vars
    /\ [][(/\ call'.op = "/submit-approval"
            /\ file' # file
            /\ Len(StoredPending) > 0
            /\ call'.event_id = StoredPending[1]) =>
              load(FreshState, file').pending_event_ids = Tail(StoredPending)]_vars

\* the first of two pending events was decided and /next-approval then
\* presented the second
C38_Witness ==
    /\ call.op = "/next-approval"
    /\ Len(StoredPending) = 1
    /\ Len(call.ret) = 1
    /\ call.ret[1].id = StoredPending[1]
    /\ Len(load(FreshState, file).approvals) = 1
    /\ Len(load(FreshState, file).events) = 2

(***************************************************************************)
(* C31                                                                     *)
(***************************************************************************)
\* the delays double, from half a second on
Doubling(slept) ==
    /\ Len(slept) > 0 => slept[1] = 500
    /\ \A k \in 1..(Len(slept) - 1) : slept[k + 1] = 2 * slept[k]

\* what the tool returns when every one of its requests failed
Sentinel(tool) ==
    IF tool = "web_search" THEN "No results found."
    ELSE IF tool = "official_hazard_search" THEN "No official results found."
    ELSE "Fetch failed: request error or timeout"

\* C31: a request is attempted at most retries + 1 times; it has slept once
\* after each failed attempt but the last, each delay twice the one before;
\* a request that got a response made no attempt after it, and a request
\* is given up (None) only when retries + 1 attempts have failed. A tool
\* whose requests were all given up returns its sentinel string.
C31_BoundedRetries ==
    /\ call.at = "request" =>
          /\ call.attempt <= call.retries
          /\ Len(call.slept) = call.attempt
          /\ Doubling(call.slept)
    /\ \A q \in 1..Len(call.done) :
          /\ call.done[q].attempts <= call.retries + 1
          /\ Len(call.done[q].slept) = call.done[q].attempts - 1
          /\ Doubling(call.done[q].slept)
          /\ ~call.done[q].ok => call.done[q].attempts = call.retries + 1
    /\ (/\ call.at = "returned"
        /\ Len(call.done) > 0
        /\ \A q \in 1..Len(call.done) : ~call.done[q].ok) =>
          call.ret = Sentinel(call.op)

\* web_scrape with the default number of retries: four attempts failed, with
\* delays of 0.5 s, 1 s and 2 s between them, and the tool returned its sentinel
C31_Witness ==
    /\ call.op = "web_scrape"
    /\ call.at = "returned"
    /\ call.retries = DEFAULT_RETRIES
    /\ Len(call.done) = 1
    /\ ~call.done[1].ok
    /\ call.done[1].attempts = 4
    /\ call.done[1].slept = <<500, 1000, 2000>>
    /\ call.ret = "Fetch failed: request error or timeout"
====
